---- MODULE Spec2Model ----
(***************************************************************************)
(* Model of the engram event store (src/engram/store.py), its briefing     *)
(* generator (src/engram/briefing.py), its query engine                    *)
(* (src/engram/query.py), its sessions, its schema migration, its          *)
(* checkpoints, its garbage collector (src/engram/gc.py) and the commands  *)
(* of several processes sharing one store.                                 *)
(*                                                                         *)
(* Representation.  A Python str is a sequence of one-character strings;   *)
(* the empty sequence is the empty string, and also stands for None where  *)
(* the code only tests truthiness (`if not event.id`, `if event.scope`).   *)
(* A TEXT column holds a sequence of characters, NULL is the empty         *)
(* sequence (no column of the events table ever holds a non-null empty     *)
(* JSON text).  A timestamp is the ISO-8601 string isoformat() emits,      *)
(* kept as [s, f, off]: s the seconds of "YYYY-MM-DDTHH:MM:SS" counted     *)
(* from a reference instant, f = 1 when a ".ffffff" fraction follows and 0 *)
(* when the offset follows directly, off the hours of the offset (0 for    *)
(* the "+00:00" of every timestamp the store writes).  Content is kept by  *)
(* the attributes the code observes: its length, the words the full-text   *)
(* index finds in it, and for a roll-up written by the briefing the file,  *)
(* edit count and the two short timestamps.                                *)
(***************************************************************************)
EXTENDS Integers, Sequences, FiniteSets, TLC

VARIABLES tables, cols, checks, schema_version, migrated, events, fts, now, ret,
          out, sessions, meta, archive, procs

vars == <<tables, cols, checks, schema_version, migrated, events, fts, now, ret,
          out, sessions, meta, archive, procs>>

dbvars == <<tables, cols, checks, schema_version, migrated>>

\* the checkpoint keys of the meta table, the archive store of the garbage
\* collector, and the commands in flight in other processes
sidevars == <<meta, archive, procs>>

(***************************************************************************)
(* Program constants                                                       *)
(***************************************************************************)
SCHEMA_VERSION == 5

MaxContent == 2000

DedupWindowSecs == 1800

DefaultSinceSecs == 604800

ResolvedWindowHours == 48

WarningCap == 20

DecisionCap == 15

MutationCap == 20

DiscoveryCap == 10

OutcomeCap == 5

ResolvedCap == 10

EventTypes == {"discovery", "decision", "warning", "mutation", "outcome"}

Statuses == {"active", "resolved", "superseded"}

Priorities == {"critical", "high", "normal", "low"}

\* briefing.py: _PRIORITY_ORDER.get(e.priority, 2)
PriorityOrder(p) ==
    CASE p = "critical" -> 0
      [] p = "high" -> 1
      [] p = "normal" -> 2
      [] p = "low" -> 3
      [] OTHER -> 2

(***************************************************************************)
(* Bounds of the model                                                     *)
(***************************************************************************)
MaxEvents == 2

MaxBatch == 2

(***************************************************************************)
(* Strings                                                                 *)
(***************************************************************************)
DQ == "\""

BS == "\\"

None == <<>>

\* ASCII case folding as SQLite's LIKE applies it (letters of the model's alphabet)
Fold(c) ==
    CASE c = "A" -> "a"
      [] c = "B" -> "b"
      [] c = "E" -> "e"
      [] c = "S" -> "s"
      [] c = "T" -> "t"
      [] OTHER -> c

\* str.startswith
StartsWith(s, prefix) ==
    /\ Len(prefix) <= Len(s)
    /\ SubSeq(s, 1, Len(prefix)) = prefix

RECURSIVE Like(_, _)
\* SQLite `text LIKE pat` without ESCAPE: % matches any run of characters,
\* _ matches any one character, other characters match case-insensitively.
Like(pat, text) ==
    IF pat = <<>> THEN text = <<>>
    ELSE IF Head(pat) = "%"
         THEN Like(Tail(pat), text) \/ (text # <<>> /\ Like(pat, Tail(text)))
    ELSE IF text = <<>> THEN FALSE
    ELSE /\ (Head(pat) = "_" \/ Fold(Head(pat)) = Fold(Head(text)))
         /\ Like(Tail(pat), Tail(text))

RECURSIVE JsonEscape(_)
\* json.dumps escaping of the characters of one string
JsonEscape(s) ==
    IF s = <<>> THEN <<>>
    ELSE (IF Head(s) = DQ THEN <<BS, DQ>>
          ELSE IF Head(s) = BS THEN <<BS, BS>>
          ELSE <<Head(s)>>) \o JsonEscape(Tail(s))

JsonString(s) == <<DQ>> \o JsonEscape(s) \o <<DQ>>

RECURSIVE JsonJoin(_)
JsonJoin(items) ==
    IF items = <<>> THEN <<>>
    ELSE IF Len(items) = 1 THEN JsonString(Head(items))
    ELSE JsonString(Head(items)) \o <<",", " ">> \o JsonJoin(Tail(items))

\* json.dumps(list of str)
JsonDumps(items) == <<"[">> \o JsonJoin(items) \o <<"]">>

\* `json.dumps(x) if x else None`
JsonOrNull(items) == IF items = <<>> THEN None ELSE JsonDumps(items)

RECURSIVE JsonParse(_, _, _, _)
\* scanner of json.loads for an array of strings
JsonParse(text, cur, inStr, acc) ==
    IF text = <<>> THEN acc
    ELSE IF ~inStr
         THEN IF Head(text) = DQ THEN JsonParse(Tail(text), <<>>, TRUE, acc)
              ELSE JsonParse(Tail(text), cur, FALSE, acc)
    ELSE IF Head(text) = BS
         THEN JsonParse(Tail(Tail(text)), Append(cur, text[2]), TRUE, acc)
    ELSE IF Head(text) = DQ
         THEN JsonParse(Tail(text), <<>>, FALSE, Append(acc, cur))
    ELSE JsonParse(Tail(text), Append(cur, Head(text)), TRUE, acc)

\* `json.loads(raw) if raw else None`
JsonLoads(raw) == IF raw = <<>> THEN None ELSE JsonParse(raw, <<>>, FALSE, <<>>)

(***************************************************************************)
(* Timestamps                                                              *)
(***************************************************************************)
EmptyTs == [s |-> -1, f |-> 0, off |-> 0]

\* datetime.isoformat() of a UTC time: the seconds, whether a fraction is
\* written, and the offset "+00:00"
Ts(sec, frac) == [s |-> sec, f |-> frac, off |-> 0]

\* isoformat() of a time carrying another offset: the seconds of its wall
\* clock and the offset in hours
TsOffset(sec, hours) == [s |-> sec, f |-> 0, off |-> hours]

\* the rank in string order of what follows the seconds: "+00:00" before
\* "+01:00" ... before "-01:00" ... ("+" sorts before "-"), all of them
\* before a fraction ("." sorts after both)
Suffix(t) == 100 * t.f + (IF t.off >= 0 THEN t.off ELSE 50 - t.off)

\* Python / SQLite comparison of two timestamp strings: the first 19
\* characters are fixed-width digits, then the suffixes decide
TsLess(a, b) == a.s < b.s \/ (a.s = b.s /\ Suffix(a) < Suffix(b))

TsLeq(a, b) == a = b \/ TsLess(a, b)

\* timestamp[:19] parsed by datetime.fromisoformat, as seconds
TruncSeconds(t) == t.s

\* formatting._short_timestamp: ts[:16], minute precision
ShortTimestamp(t) == t.s \div 60

(***************************************************************************)
(* Rows of the events table                                                *)
(***************************************************************************)
\* a content of n characters in which the full-text tokenizer finds the
\* given words
Text(n, words) ==
    [len |-> n, file |-> <<>>, count |-> 0, first |-> 0, last |-> 0, words |-> words]

RawContent(n) == Text(n, {})

Event(id, ts, type, agent, content, scope, related, status, priority) ==
    [id |-> id, timestamp |-> ts, event_type |-> type, agent_id |-> agent,
     content |-> content, scope |-> scope, related_ids |-> related,
     status |-> status, priority |-> priority,
     resolved_reason |-> None, superseded_by |-> None, session_id |-> None]

AllColumns ==
    <<"id", "timestamp", "event_type", "agent_id", "content", "scope",
      "related_ids", "status", "priority", "resolved_reason",
      "superseded_by_event_id", "session_id">>

AllChecks == {"event_type", "content", "status", "priority"}

AllTables == {"events", "events_fts", "meta", "conversations",
              "conversation_messages", "sessions"}

Range(seq) == {seq[i] : i \in 1..Len(seq)}

\* store._row_to_event
RowToEvent(row) ==
    [id |-> row.id, timestamp |-> row.timestamp, event_type |-> row.event_type,
     agent_id |-> row.agent_id, content |-> row.content,
     scope |-> JsonLoads(row.scope),
     related_ids |-> JsonLoads(row.related_ids),
     status |-> row.status, priority |-> row.priority,
     resolved_reason |-> row.resolved_reason,
     superseded_by |-> row.superseded_by_event_id,
     session_id |-> row.session_id]

\* SQLite assigns max(rowid)+1 to a new row; a table is kept in rowid order,
\* so its last row carries the largest rowid
NextRowid(rows) ==
    IF rows = <<>> THEN 1 ELSE 1 + rows[Len(rows)].rowid

\* RowAccepted with the content CHECK off by one (length(content) <= 2001)
RowAccepted_OffByOne(rows, chk, row) ==
    /\ ("event_type" \in chk => row.event_type \in EventTypes)
    /\ ("content" \in chk => row.content.len <= MaxContent + 1)
    /\ ("status" \in chk => row.status \in Statuses)
    /\ ("priority" \in chk => row.priority \in Priorities)
    /\ \A r \in Range(rows) : r.id # row.id

\* the CHECK and PRIMARY KEY constraints of SCHEMA_SQL that a new row must pass
RowAccepted(rows, chk, row) ==
    /\ ("event_type" \in chk => row.event_type \in EventTypes)
    /\ ("content" \in chk => row.content.len <= MaxContent)
    /\ ("status" \in chk => row.status \in Statuses)
    /\ ("priority" \in chk => row.priority \in Priorities)
    /\ \A r \in Range(rows) : r.id # row.id

\* the row the INSERT statement of insert / insert_batch writes for an event
\* whose id and timestamp are set
EventRow(rows, e) ==
    [rowid |-> NextRowid(rows),
     id |-> e.id, timestamp |-> e.timestamp, event_type |-> e.event_type,
     agent_id |-> e.agent_id, content |-> e.content,
     scope |-> JsonOrNull(e.scope), related_ids |-> JsonOrNull(e.related_ids),
     status |-> e.status, priority |-> e.priority,
     resolved_reason |-> None, superseded_by_event_id |-> None,
     session_id |-> e.session_id]

\* trigger events_ai: one index entry per inserted row
FtsEntry(row) == [rowid |-> row.rowid, content |-> row.content, scope |-> row.scope]

(***************************************************************************)
(* Event store: insert, insert_batch, update_status                        *)
(***************************************************************************)
Digits == <<"0", "1", "2", "3", "4", "5", "6", "7", "8", "9">>

\* the n-th identifier _generate_id can hand out ("evt-" and hex digits)
GenId(n) ==
    IF n < 10 THEN <<"e", Digits[n + 1]>>
    ELSE <<"e", Digits[(n \div 10) + 1], Digits[(n % 10) + 1]>>

\* _generate_id: an identifier no event of the store, of its archive or of
\* the call carries (uuid4 collisions are not modelled)
FreshId(used) == GenId(CHOOSE n \in 1..99 :
                         /\ GenId(n) \notin used
                         /\ \A m \in 1..(n - 1) : GenId(m) \in used)

IdsOf(rows) == {r.id : r \in Range(rows)}

\* insert / insert_batch preamble: `if not e.id`, `if not e.timestamp`
WithIdAndTime(e, used, clock) ==
    [e EXCEPT !.id = IF e.id = <<>> THEN FreshId(used) ELSE e.id,
              !.timestamp = IF e.timestamp = EmptyTs THEN clock ELSE e.timestamp]

RECURSIVE PrepareBatch(_, _, _)
\* the `rows` loop of insert_batch: ids and timestamps of the whole batch are
\* fixed before the transaction starts
PrepareBatch(batch, used, clock) ==
    IF batch = <<>> THEN <<>>
    ELSE LET e == WithIdAndTime(Head(batch), used, clock)
         IN <<e>> \o PrepareBatch(Tail(batch), used \cup {e.id}, clock)

RECURSIVE ExecuteMany(_, _, _, _)
\* executemany inside `with self.conn`: rows are inserted one after another;
\* the first constraint failure raises, which leaves the transaction to be
\* rolled back by the context manager
ExecuteMany(rows, index, chk, batch) ==
    IF batch = <<>> THEN [ok |-> TRUE, events |-> rows, fts |-> index]
    ELSE LET row == EventRow(rows, Head(batch))
         IN IF RowAccepted(rows, chk, row)
            THEN ExecuteMany(Append(rows, row), Append(index, FtsEntry(row)),
                             chk, Tail(batch))
            ELSE [ok |-> FALSE, events |-> rows, fts |-> index]

\* Transaction without the rollback: the rows inserted before the failing
\* one stay
Transaction_NoRollback(rows, index, chk, batch) ==
    ExecuteMany(rows, index, chk, batch)

\* `with self.conn:` commits when the block ends normally, rolls back when
\* it raises
Transaction(rows, index, chk, batch) ==
    LET done == ExecuteMany(rows, index, chk, batch)
    IN IF done.ok THEN done
       ELSE [ok |-> FALSE, events |-> rows, fts |-> index]

Result(op, arg, ok, err, val) ==
    [op |-> op, arg |-> arg, ok |-> ok, err |-> err, val |-> val]

NoResult == Result("none", <<>>, TRUE, "", <<>>)

\* the meta table of a new store holds no checkpoint key
NoMeta == {}

\* no archive store has been written: the archive directory is empty
NoArchive == [events |-> <<>>, fts |-> <<>>]

\* no command is in flight in another process
NoProcs == <<>>

Insert(e) ==
    /\ migrated
    /\ "events" \in tables
    /\ LET ev == WithIdAndTime(e, IdsOf(events) \cup IdsOf(archive.events), now)
           done == Transaction(events, fts, checks, <<ev>>)
       IN /\ events' = done.events
          /\ fts' = done.fts
          /\ ret' = Result("insert", e, done.ok,
                           IF done.ok THEN "" ELSE "IntegrityError", ev)
    /\ UNCHANGED <<dbvars, now, out, sessions, sidevars>>

InsertBatch(batch) ==
    /\ migrated
    /\ "events" \in tables
    /\ LET supplied == {batch[i].id : i \in 1..Len(batch)} \ {<<>>}
           evs == PrepareBatch(batch,
                               IdsOf(events) \cup IdsOf(archive.events) \cup supplied,
                               now)
           done == Transaction(events, fts, checks, evs)
       IN /\ events' = done.events
          /\ fts' = done.fts
          /\ ret' = Result("insert_batch", batch, done.ok,
                           IF done.ok THEN "" ELSE "IntegrityError",
                           IF done.ok THEN Len(evs) ELSE 0)
    /\ UNCHANGED <<dbvars, now, out, sessions, sidevars>>

\* the UPDATE without its WHERE clause
SetStatus_NoWhere(rows, id, status, reason, by) ==
    [i \in 1..Len(rows) |->
        [rows[i] EXCEPT !.status = status,
                        !.resolved_reason = reason,
                        !.superseded_by_event_id = by]]

\* the UPDATE statement of update_status
SetStatus(rows, id, status, reason, by) ==
    [i \in 1..Len(rows) |->
        IF rows[i].id = id
        THEN [rows[i] EXCEPT !.status = status,
                             !.resolved_reason = reason,
                             !.superseded_by_event_id = by]
        ELSE rows[i]]

\* update_status without the lookup of the event before the UPDATE
UpdateStatus_NoLookup(id, status, reason, by) ==
    /\ migrated
    /\ "events" \in tables
    /\ LET arg == [id |-> id, status |-> status, resolved_reason |-> reason,
                   superseded_by |-> by]
       IN IF status \notin Statuses
          THEN /\ ret' = Result("update_status", arg, FALSE, "InvalidStatus", <<>>)
               /\ UNCHANGED events
          ELSE /\ events' = SetStatus(events, id, status, reason, by)
               /\ ret' = Result("update_status", arg, TRUE, "", <<>>)
    /\ UNCHANGED <<dbvars, fts, now, out, sessions, sidevars>>

UpdateStatus(id, status, reason, by) ==
    /\ migrated
    /\ "events" \in tables
    /\ LET arg == [id |-> id, status |-> status, resolved_reason |-> reason,
                   superseded_by |-> by]
       IN IF status \notin Statuses
          THEN /\ ret' = Result("update_status", arg, FALSE, "InvalidStatus", <<>>)
               /\ UNCHANGED events
          ELSE IF id \notin IdsOf(events)
          THEN /\ ret' = Result("update_status", arg, FALSE, "NotFound", <<>>)
               /\ UNCHANGED events
          ELSE /\ events' = SetStatus(events, id, status, reason, by)
               /\ ret' = Result("update_status", arg, TRUE, "",
                                RowToEvent(CHOOSE r \in Range(events') : r.id = id))
    /\ UNCHANGED <<dbvars, fts, now, out, sessions, sidevars>>

(***************************************************************************)
(* Queries of the store used by the briefing                               *)
(***************************************************************************)
\* list.sort / sorted / ORDER BY with one integer key per element: the element
\* at index i goes behind every element with a smaller key and behind the
\* earlier elements with the same key (Python's sorts are stable)
StableSort(seq, keys) ==
    LET n == Len(seq)
        pos == [i \in 1..n |-> 1 + Cardinality({j \in 1..n :
                                     \/ keys[j] < keys[i]
                                     \/ (keys[j] = keys[i] /\ j < i)})]
    IN [p \in 1..n |-> seq[CHOOSE i \in 1..n : pos[i] = p]]

Reverse(seq) == [i \in 1..Len(seq) |-> seq[Len(seq) + 1 - i]]

\* the rank of a timestamp string in string order
TsKey(t) == 200 * t.s + Suffix(t)

\* key=lambda e: e.timestamp with reverse=True, which keeps equal elements in
\* their original order
Newer(evs) == [i \in 1..Len(evs) |-> 0 - TsKey(evs[i].timestamp)]

\* key=lambda e: e.timestamp
Older(evs) == [i \in 1..Len(evs) |-> TsKey(evs[i].timestamp)]

\* ORDER BY timestamp DESC without the LIMIT
OrderByTimestampDesc_NoLimit(rows, tie, limit) ==
    LET scanned == IF tie = "rowid_desc" THEN Reverse(rows) ELSE rows
    IN StableSort(scanned, Newer(scanned))

\* ORDER BY timestamp DESC LIMIT n.  SQL leaves the order of rows with equal
\* timestamps open: tie is the order in which the scan met them.
OrderByTimestampDesc(rows, tie, limit) ==
    LET scanned == IF tie = "rowid_desc" THEN Reverse(rows) ELSE rows
        sorted == StableSort(scanned, Newer(scanned))
    IN SubSeq(sorted, 1, IF Len(sorted) < limit THEN Len(sorted) ELSE limit)

TieOrders == {"rowid_asc", "rowid_desc"}

\* `scope LIKE ?` with parameter %scope%; NULL never matches
ScopeLike(row, scope) ==
    /\ row.scope # None
    /\ Like(<<"%">> \o scope \o <<"%">>, row.scope)

\* recent_by_type with the status filter dropped
RecentByType_AnyStatus(rows, type, limit, since, scope, status, tie) ==
    LET hit(r) == /\ r.event_type = type
                  /\ TsLeq(since, r.timestamp)
                  /\ (scope # None => ScopeLike(r, scope))
        found == OrderByTimestampDesc(SelectSeq(rows, hit), tie, limit)
    IN [i \in 1..Len(found) |-> RowToEvent(found[i])]

\* store.recent_by_type (since is always passed by the briefing)
RecentByType(rows, type, limit, since, scope, status, tie) ==
    LET hit(r) == /\ r.event_type = type
                  /\ (status # "" => r.status = status)
                  /\ TsLeq(since, r.timestamp)
                  /\ (scope # None => ScopeLike(r, scope))
        found == OrderByTimestampDesc(SelectSeq(rows, hit), tie, limit)
    IN [i \in 1..Len(found) |-> RowToEvent(found[i])]

\* store.recent_resolved with `timestamp > ?`
RecentResolved_Exclusive(rows, since, limit, tie) ==
    LET hit(r) == r.status = "resolved" /\ TsLess(since, r.timestamp)
        found == OrderByTimestampDesc(SelectSeq(rows, hit), tie, limit)
    IN [i \in 1..Len(found) |-> RowToEvent(found[i])]

\* store.recent_resolved
RecentResolved(rows, since, limit, tie) ==
    LET hit(r) == r.status = "resolved" /\ TsLeq(since, r.timestamp)
        found == OrderByTimestampDesc(SelectSeq(rows, hit), tie, limit)
    IN [i \in 1..Len(found) |-> RowToEvent(found[i])]

(***************************************************************************)
(* Briefing generator                                                      *)
(***************************************************************************)
\* (datetime.now(utc) - timedelta(seconds)).isoformat()
Ago(clock, seconds) == Ts(clock.s - seconds, clock.f)

\* _scope_relevance returning 0 from inside the loop, after the first entry
ScopeRelevanceOf_FirstEntry(scope, focus) ==
    IF scope = <<>> THEN 0
    ELSE IF Head(scope) = focus THEN 3
    ELSE IF StartsWith(focus, Head(scope)) THEN 2
    ELSE IF StartsWith(Head(scope), focus) THEN 1
    ELSE 0

RECURSIVE ScopeRelevanceOf(_, _)
\* the loop of _scope_relevance over the scope entries
ScopeRelevanceOf(scope, focus) ==
    IF scope = <<>> THEN 0
    ELSE IF Head(scope) = focus THEN 3
    ELSE IF StartsWith(focus, Head(scope)) THEN 2
    ELSE IF StartsWith(Head(scope), focus) THEN 1
    ELSE ScopeRelevanceOf(Tail(scope), focus)

\* BriefingGenerator._scope_relevance
ScopeRelevance(event, focus) ==
    IF event.scope = <<>> THEN 0 ELSE ScopeRelevanceOf(event.scope, focus)

\* key=lambda e: _PRIORITY_ORDER.get(e.priority, 2)
HigherPriority(evs) == [i \in 1..Len(evs) |-> PriorityOrder(evs[i].priority)]

\* the two sorts in the other order: priority first, then timestamp
SortByPriorityRecency_PriorityFirst(evs) ==
    LET byPriority == StableSort(evs, HigherPriority(evs))
    IN StableSort(byPriority, Newer(byPriority))

\* BriefingGenerator._sort_by_priority_recency
SortByPriorityRecency(evs) ==
    LET byRecency == StableSort(evs, Newer(evs))
    IN StableSort(byRecency, HigherPriority(byRecency))

\* the grouping test and key of _deduplicate_mutations
Groupable(e) == e.scope # <<>> /\ Len(e.scope) = 1

\* the group key without the agent
GroupKey_FileOnly(e) == <<e.scope[1], "">>

GroupKey(e) == <<e.scope[1], e.agent_id>>

RECURSIVE GroupKeys(_, _)
\* keys of the groups dict, in the order setdefault created them
GroupKeys(muts, seen) ==
    IF muts = <<>> THEN seen
    ELSE IF Groupable(Head(muts)) /\ GroupKey(Head(muts)) \notin Range(seen)
         THEN GroupKeys(Tail(muts), Append(seen, GroupKey(Head(muts))))
    ELSE GroupKeys(Tail(muts), seen)

GroupOf(muts, key) ==
    SelectSeq(muts, LAMBDA e : Groupable(e) /\ GroupKey(e) = key)

\* SplitWindows comparing with < instead of <= (exactly 30:00 starts a window)
RECURSIVE SplitWindows_Exclusive(_, _, _)
SplitWindows_Exclusive(rest, current, windows) ==
    IF rest = <<>> THEN Append(windows, current)
    ELSE IF TruncSeconds(Head(rest).timestamp)
              - TruncSeconds(current[Len(current)].timestamp) < DedupWindowSecs
         THEN SplitWindows_Exclusive(Tail(rest), Append(current, Head(rest)), windows)
    ELSE SplitWindows_Exclusive(Tail(rest), <<Head(rest)>>, Append(windows, current))

RECURSIVE SplitWindows(_, _, _)
\* the windowing loop: `(curr_dt - prev_dt) <= timedelta(minutes=30)`
SplitWindows(rest, current, windows) ==
    IF rest = <<>> THEN Append(windows, current)
    ELSE IF TruncSeconds(Head(rest).timestamp)
              - TruncSeconds(current[Len(current)].timestamp) <= DedupWindowSecs
         THEN SplitWindows(Tail(rest), Append(current, Head(rest)), windows)
    ELSE SplitWindows(Tail(rest), <<Head(rest)>>, Append(windows, current))

\* the synthetic event built without `scope=latest.scope`
Collapsed_Scopeless(window, filepath) ==
    LET latest == window[Len(window)]
    IN [id |-> latest.id, timestamp |-> latest.timestamp,
        event_type |-> latest.event_type, agent_id |-> latest.agent_id,
        content |-> [len |-> 0, file |-> filepath, count |-> Len(window),
                     first |-> ShortTimestamp(window[1].timestamp),
                     last |-> ShortTimestamp(latest.timestamp)],
        scope |-> <<>>,
        related_ids |-> [i \in 1..Len(window) |-> window[i].id],
        status |-> "active", priority |-> "normal",
        resolved_reason |-> None, superseded_by |-> None, session_id |-> None]

\* the synthetic event built from the first mutation of the window
Collapsed_Earliest(window, filepath) ==
    LET latest == window[1]
    IN [id |-> latest.id, timestamp |-> latest.timestamp,
        event_type |-> latest.event_type, agent_id |-> latest.agent_id,
        content |-> [len |-> 0, file |-> filepath, count |-> Len(window),
                     first |-> ShortTimestamp(window[1].timestamp),
                     last |-> ShortTimestamp(window[Len(window)].timestamp)],
        scope |-> latest.scope,
        related_ids |-> [i \in 1..Len(window) |-> window[i].id],
        status |-> "active", priority |-> "normal",
        resolved_reason |-> None, superseded_by |-> None, session_id |-> None]

\* the synthetic event a window of two or more mutations collapses into
Collapsed(window, filepath) ==
    LET latest == window[Len(window)]
    IN [id |-> latest.id, timestamp |-> latest.timestamp,
        event_type |-> latest.event_type, agent_id |-> latest.agent_id,
        content |-> [len |-> 0, file |-> filepath, count |-> Len(window),
                     first |-> ShortTimestamp(window[1].timestamp),
                     last |-> ShortTimestamp(latest.timestamp)],
        scope |-> latest.scope,
        related_ids |-> [i \in 1..Len(window) |-> window[i].id],
        status |-> "active", priority |-> "normal",
        resolved_reason |-> None, superseded_by |-> None, session_id |-> None]

RECURSIVE EmitWindows(_, _)
EmitWindows(windows, filepath) ==
    IF windows = <<>> THEN <<>>
    ELSE (IF Len(Head(windows)) = 1 THEN <<Head(windows)[1]>>
          ELSE <<Collapsed(Head(windows), filepath)>>)
         \o EmitWindows(Tail(windows), filepath)

\* body of `for (filepath, agent), group in groups.items()`
EmitGroup(group, filepath) ==
    IF Len(group) = 1 THEN group
    ELSE LET chrono == StableSort(group, Older(group))
         IN EmitWindows(SplitWindows(Tail(chrono), <<chrono[1]>>, <<>>), filepath)

RECURSIVE EmitGroups(_, _)
EmitGroups(muts, keys) ==
    IF keys = <<>> THEN <<>>
    ELSE EmitGroup(GroupOf(muts, Head(keys)), Head(keys)[1])
         \o EmitGroups(muts, Tail(keys))

\* BriefingGenerator._deduplicate_mutations
DeduplicateMutations(muts) ==
    IF muts = <<>> THEN muts
    ELSE LET ungrouped == SelectSeq(muts, LAMBDA e : ~Groupable(e))
             result == ungrouped \o EmitGroups(muts, GroupKeys(muts, <<>>))
         IN StableSort(result, Newer(result))

\* TouchedLater taking a mutation of the same instant for a later one
RECURSIVE TouchedLater_OrEqual(_, _)
TouchedLater_OrEqual(event, muts) ==
    IF muts = <<>> THEN FALSE
    ELSE IF Head(muts).scope = <<>> THEN TouchedLater_OrEqual(event, Tail(muts))
    ELSE IF TsLess(Head(muts).timestamp, event.timestamp)
         THEN TouchedLater_OrEqual(event, Tail(muts))
    ELSE IF Range(event.scope) \cap Range(Head(muts).scope) # {} THEN TRUE
    ELSE TouchedLater_OrEqual(event, Tail(muts))

RECURSIVE TouchedLater(_, _)
\* inner loop of _detect_stale: skip scopeless mutations and mutations not
\* later than the event, stop at the first one sharing a scope entry
TouchedLater(event, muts) ==
    IF muts = <<>> THEN FALSE
    ELSE IF Head(muts).scope = <<>> THEN TouchedLater(event, Tail(muts))
    ELSE IF TsLeq(Head(muts).timestamp, event.timestamp)
         THEN TouchedLater(event, Tail(muts))
    ELSE IF Range(event.scope) \cap Range(Head(muts).scope) # {} THEN TRUE
    ELSE TouchedLater(event, Tail(muts))

\* BriefingGenerator._detect_stale
DetectStale(decisionsAndWarnings, muts) ==
    SelectSeq(decisionsAndWarnings,
              LAMBDA e : e.scope # <<>> /\ TouchedLater(e, muts))

EventIds(evs) == {evs[i].id : i \in 1..Len(evs)}

\* section 1 of generate without the `or not e.scope`
CriticalOf_CriticalOnly(warnings) ==
    SelectSeq(warnings, LAMBDA e : e.priority = "critical")

\* section 1 of generate
CriticalOf(warnings) ==
    SelectSeq(warnings, LAMBDA e : e.priority = "critical" \/ e.scope = <<>>)

\* section 3 of generate excluding only the critical warnings
OtherOf_IgnoringFocus(allActive, criticalIds, focusIds) ==
    SelectSeq(allActive, LAMBDA e : e.id \notin criticalIds)

\* section 3 of generate
OtherOf(allActive, criticalIds, focusIds) ==
    SelectSeq(allActive, LAMBDA e : e.id \notin (criticalIds \cup focusIds))

\* TIME_MULTIPLIERS, in seconds
TimeMultipliers == [m |-> 60, h |-> 3600, d |-> 86400, w |-> 604800]

\* generate called without `since`
NoSince == [kind |-> "none"]

\* a relative `since` such as "1h"
Relative(amount, unit) == [kind |-> "relative", amount |-> amount, unit |-> unit]

\* a `since` of the format %Y-%m-%d: the day
IsoDate(day) == [kind |-> "date", day |-> day]

\* a `since` of the format %Y-%m-%dT%H:%M:%S: the seconds of its wall clock
IsoDateTime(sec) == [kind |-> "datetime", s |-> sec]

\* a `since` of the format %Y-%m-%dT%H:%M:%S%z: wall clock and offset in hours
IsoWithOffset(sec, hours) == [kind |-> "offset", s |-> sec, off |-> hours]

\* query.parse_since: a relative time is taken off the clock; a date or
\* datetime without offset gets tzinfo UTC; a datetime with an offset keeps
\* it; isoformat() writes each as it stands
ParseSince(since, clock) ==
    CASE since.kind = "relative" ->
            Ago(clock, TimeMultipliers[since.unit] * since.amount)
      [] since.kind = "date" -> Ts(86400 * since.day, 0)
      [] since.kind = "datetime" -> Ts(since.s, 0)
      [] since.kind = "offset" -> TsOffset(since.s, since.off)

\* BriefingGenerator.generate from `since_iso` on
BriefingOf(rows, clock, scope, since, focus, hours, tie) ==
    LET warnings == RecentByType(rows, "warning", WarningCap, since, scope, "active", tie)
        decisions == RecentByType(rows, "decision", DecisionCap, since, scope, "active", tie)
        fetched == RecentByType(rows, "mutation", MutationCap, since, scope, "active", tie)
        discoveries == RecentByType(rows, "discovery", DiscoveryCap, since, scope, "active", tie)
        outcomes == RecentByType(rows, "outcome", OutcomeCap, since, scope, "active", tie)
        mutations == DeduplicateMutations(fetched)
        stale == DetectStale(warnings \o decisions, mutations)
        allActive == warnings \o decisions \o discoveries \o outcomes
        critical == CriticalOf(warnings)
        criticalIds == EventIds(critical)
        focusRelevant ==
            IF focus = None THEN <<>>
            ELSE SelectSeq(allActive,
                     LAMBDA e : e.id \notin criticalIds /\ ScopeRelevance(e, focus) > 0)
        focusIds == EventIds(focusRelevant)
        other == OtherOf(allActive, criticalIds, focusIds)
        resolved == RecentResolved(rows, Ago(clock, hours * 3600), ResolvedCap, tie)
    IN [total_events |-> Len(rows),
        critical_warnings |-> SortByPriorityRecency(critical),
        focus_relevant |-> SortByPriorityRecency(focusRelevant),
        other_active |-> SortByPriorityRecency(other),
        recently_resolved |-> resolved,
        recent_mutations |-> mutations,
        potentially_stale |-> stale]

\* BriefingGenerator.generate, for the default `since` and
\* resolved_window_hours
Briefing(rows, clock, scope, focus, tie) ==
    BriefingOf(rows, clock, scope, Ago(clock, DefaultSinceSecs), focus,
               ResolvedWindowHours, tie)

GenerateWith(scope, since, focus, hours, tie) ==
    /\ migrated
    /\ "events" \in tables
    /\ LET sinceIso == IF since = NoSince THEN Ago(now, DefaultSinceSecs)
                       ELSE ParseSince(since, now)
       IN ret' = Result("briefing",
                        [scope |-> scope, since |-> since, focus |-> focus,
                         hours |-> hours, tie |-> tie],
                        TRUE, "",
                        BriefingOf(events, now, scope, sinceIso, focus, hours, tie))
    /\ UNCHANGED <<dbvars, events, fts, now, out, sessions, sidevars>>

Generate(scope, focus, tie) == GenerateWith(scope, NoSince, focus, ResolvedWindowHours, tie)

(***************************************************************************)
(* Specification of the store: an initialized database and its callers     *)
(***************************************************************************)
Time0 == Ts(0, 0)

IdA == <<"a">>

IdMissing == <<"z">>

Reason1 == <<"r">>

\* events a caller hands to insert
InsertInputs ==
    {Event(id, EmptyTs, type, "t", RawContent(n), <<>>, <<>>, st, pr) :
        id \in {<<>>, IdA}, type \in {"warning"},
        n \in {MaxContent, MaxContent + 1},
        st \in {"active", "resolved", "bogus"}, pr \in {"normal", "bogus"}}
    \cup {Event(<<>>, EmptyTs, "bogus", "t", RawContent(1), <<>>, <<>>,
                "active", "normal")}

BatchInputs ==
    {Event(id, EmptyTs, "mutation", "t", RawContent(n), <<>>, <<>>,
           "active", "normal") :
        id \in {<<>>, IdA}, n \in {MaxContent, MaxContent + 1}}

Batches ==
    UNION {[1..k -> BatchInputs] : k \in 0..MaxBatch}

\* (status, resolved_reason, superseded_by) combinations callers pass
StatusCalls ==
    {<<"active", None, None>>, <<"resolved", Reason1, None>>,
     <<"resolved", None, None>>, <<"superseded", None, GenId(1)>>,
     <<"superseded", None, None>>, <<"bogus", None, None>>}

InitDb ==
    /\ tables = AllTables
    /\ cols = AllColumns
    /\ checks = AllChecks
    /\ schema_version = 0
    /\ migrated = TRUE

Init ==
    /\ InitDb
    /\ events = <<>>
    /\ fts = <<>>
    /\ now = Time0
    /\ ret = NoResult
    /\ out = <<>>
    /\ sessions = <<>>
    /\ meta = NoMeta
    /\ archive = NoArchive
    /\ procs = NoProcs

Next ==
    \/ \E e \in InsertInputs : Len(events) < MaxEvents /\ Insert(e)
    \/ \E b \in Batches : Len(events) + Len(b) <= MaxEvents /\ InsertBatch(b)
    \/ \E id \in {IdA, GenId(1), IdMissing}, c \in StatusCalls :
          UpdateStatus(id, c[1], c[2], c[3])

Spec == Init /\ [][Next]_vars

TypeOK ==
    /\ Len(events) <= MaxEvents
    /\ Len(fts) = Len(events)

(***************************************************************************)
(* Lifecycle of an event (update_status)                                   *)
(***************************************************************************)
Lifecycle(r) == <<r.status, r.resolved_reason, r.superseded_by_event_id>>

RowOf(rows, id) == CHOOSE r \in Range(rows) : r.id = id

\* the step is a call of update_status on a stored event
UpdateCalledOn(id) ==
    /\ ret'.op = "update_status"
    /\ ret'.arg.id = id
    /\ ret'.arg.status \in Statuses

\* C1: once an event is superseded it stays superseded: every later
\* update_status on it, whatever status it requests, fails and leaves status,
\* resolved_reason and superseded_by unchanged.
C1_SupersededIsFinal ==
    [][\A r \in Range(events) :
          r.status = "superseded" =>
             /\ \A r2 \in Range(events') :
                   r2.id = r.id => Lifecycle(r2) = Lifecycle(r)
             /\ (UpdateCalledOn(r.id) => ~ret'.ok)]_vars

\* C2: update_status validates the transition: a change to resolved or to
\* superseded is accepted only from active; requested on an event that is
\* already resolved or superseded it fails and changes nothing.
C2_TransitionValidated ==
    [][\A r \in Range(events) :
          /\ UpdateCalledOn(r.id)
          /\ ret'.arg.status \in {"resolved", "superseded"}
          /\ r.status # "active"
          => /\ ~ret'.ok
             /\ events' = events]_vars

(***************************************************************************)
(* Content bound and batch atomicity                                       *)
(***************************************************************************)
ValidEnums(e) ==
    /\ e.event_type \in EventTypes
    /\ e.status \in Statuses
    /\ e.priority \in Priorities

StoredWithContent(rows, id, n) ==
    \E r \in Range(rows) : r.id = id /\ r.content.len = n

\* C8: insert and insert_batch of content longer than 2000 characters fail
\* and store nothing, content of exactly 2000 characters is accepted, and no
\* stored event ever has content longer than 2000.
C8_ContentBound ==
    /\ [](\A r \in Range(events) : r.content.len <= MaxContent)
    /\ [][/\ ret'.op = "insert" /\ ret'.arg.content.len > MaxContent
             => ~ret'.ok /\ events' = events /\ fts' = fts
          /\ ret'.op = "insert_batch"
                /\ (\E i \in 1..Len(ret'.arg) : ret'.arg[i].content.len > MaxContent)
             => ~ret'.ok /\ events' = events /\ fts' = fts
          /\ ret'.op = "insert" /\ ret'.arg.content.len = MaxContent
                /\ ValidEnums(ret'.arg) /\ ret'.arg.id \notin IdsOf(events)
             => /\ ret'.ok
                /\ Len(events') = Len(events) + 1
                /\ StoredWithContent(events', ret'.val.id, MaxContent)]_vars

C8_Witness ==
    /\ ret.op = "insert"
    /\ ret.arg.content.len = MaxContent + 1
    /\ ~ret.ok
    /\ \E r \in Range(events) : r.content.len = MaxContent

\* an event of the batch that the store cannot accept next to the stored
\* events and the rest of the batch
RejectedIn(rows, batch, i) ==
    \/ batch[i].content.len > MaxContent
    \/ ~ValidEnums(batch[i])
    \/ /\ batch[i].id # <<>>
       /\ \/ batch[i].id \in IdsOf(rows)
          \/ \E j \in 1..Len(batch) : j # i /\ batch[j].id = batch[i].id

\* C9: insert_batch is all-or-nothing: if any event of the batch is rejected
\* no event of the batch is stored and the events and the full-text index are
\* as before; otherwise all are stored and the count grows by the batch size.
C9_BatchAtomic ==
    [][ret'.op = "insert_batch" =>
          IF \E i \in 1..Len(ret'.arg) : RejectedIn(events, ret'.arg, i)
          THEN ~ret'.ok /\ events' = events /\ fts' = fts
          ELSE /\ ret'.ok
               /\ ret'.val = Len(ret'.arg)
               /\ Len(events') = Len(events) + Len(ret'.arg)
               /\ Len(fts') = Len(fts) + Len(ret'.arg)
               /\ SubSeq(events', 1, Len(events)) = events
               /\ \A i \in 1..Len(ret'.arg) :
                     events'[Len(events) + i].content = ret'.arg[i].content]_vars

C9_Witness ==
    /\ ret.op = "insert_batch"
    /\ ~ret.ok
    /\ Len(ret.arg) = 2
    /\ ~RejectedIn(events, <<ret.arg[1]>>, 1)
    /\ ret.arg[2].content.len > MaxContent

(***************************************************************************)
(* Lifecycle fields, frame and errors of update_status                     *)
(***************************************************************************)
\* C11: in every state of the store an event has a superseded_by exactly
\* when its status is superseded.
C11_SupersededByIffSuperseded ==
    \A r \in Range(events) :
        (r.superseded_by_event_id # None) <=> (r.status = "superseded")

\* C12: in every state of the store an event has a resolved_reason exactly
\* when its status is resolved.
C12_ReasonIffResolved ==
    \A r \in Range(events) :
        (r.resolved_reason # None) <=> (r.status = "resolved")

LifecycleColumns == {"status", "resolved_reason", "superseded_by_event_id"}

\* the step is a call of update_status that returned the updated event
UpdateSucceeded == ret'.op = "update_status" /\ ret'.ok

\* C13: a successful update_status changes only status, resolved_reason and
\* superseded_by of the addressed event: its other fields, every other
\* event, the number of events and the search index stay as they were.
C13_OnlyLifecycleChanges ==
    [][UpdateSucceeded =>
          /\ Len(events') = Len(events)
          /\ fts' = fts
          /\ \A i \in 1..Len(events) :
                IF events[i].id = ret'.arg.id
                THEN /\ \A c \in DOMAIN events[i] \ LifecycleColumns :
                           events'[i][c] = events[i][c]
                     /\ events'[i].status = ret'.arg.status
                ELSE events'[i] = events[i]]_vars

\* one of two stored events was resolved with a reason, the other is as
\* inserted
C13_Witness ==
    /\ ret.op = "update_status"
    /\ ret.ok
    /\ Len(events) = 2
    /\ \E r \in Range(events) :
          r.id = ret.arg.id /\ r.status = "resolved" /\ r.resolved_reason = Reason1
    /\ \E r \in Range(events) :
          r.id # ret.arg.id /\ r.status = "active" /\ r.resolved_reason = None

\* C15: update_status with a status outside active/resolved/superseded
\* fails with the invalid-status error, update_status with a legal status
\* and an id no event has fails with the not-found error, and neither
\* changes any event.
C15_UpdateErrors ==
    [][ret'.op = "update_status" =>
          /\ (ret'.arg.status \notin Statuses =>
                 ~ret'.ok /\ ret'.err = "InvalidStatus" /\ events' = events)
          /\ (ret'.arg.status \in Statuses /\ ret'.arg.id \notin IdsOf(events) =>
                 ~ret'.ok /\ ret'.err = "NotFound" /\ events' = events)
          /\ (ret'.arg.id \notin IdsOf(events) => ~ret'.ok)]_vars

\* a store with events refused an update of an id it does not hold
C15_Witness ==
    /\ ret.op = "update_status"
    /\ ~ret.ok
    /\ ret.err = "NotFound"
    /\ ret.arg.status = "resolved"
    /\ events # <<>>
    /\ \A r \in Range(events) : r.status = "active"

\* C28: every event starts active.  An event persisted by insert or
\* insert_batch has status active right after the call, whatever status the
\* caller's Event carries, and an event leaves active only through
\* update_status.
C28_StartsActive ==
    [][/\ (ret'.op \in {"insert", "insert_batch"} /\ ret'.ok)
             => \A i \in (Len(events) + 1)..Len(events') : events'[i].status = "active"
       /\ \A i \in 1..Len(events) :
             (events[i].status = "active" /\ events'[i].status # "active")
                => ret'.op = "update_status"]_vars

(***************************************************************************)
(* Lifecycle commands of the command line: resolve, reopen, supersede      *)
(***************************************************************************)
\* `if not event`: get_event found no row
Missing(rows, id) == id \notin IdsOf(rows)

\* EventStore.get_event: the stored event, or None
GetEvent(rows, id) ==
    IF id \in IdsOf(rows) THEN RowToEvent(CHOOSE r \in Range(rows) : r.id = id)
    ELSE None

\* what a command printed and how it exited: ok is exit status 0
Echo(cmd, id, reason, ok, err) ==
    [cmd |-> cmd, id |-> id, reason |-> reason, ok |-> ok, err |-> err]

\* a command that exits with status 1 before it updates anything
Refuse(cmd, id, reason, err) ==
    /\ out' = Append(out, Echo(cmd, id, reason, FALSE, err))
    /\ ret' = Result(cmd, id, FALSE, err, <<>>)
    /\ UNCHANGED events

\* a command whose checks passed: it calls update_status, whose own checks
\* (legal status, id found) then pass as well
Accept(cmd, id, status, reason, by) ==
    /\ events' = SetStatus(events, id, status, reason, by)
    /\ out' = Append(out, Echo(cmd, id, reason, TRUE, ""))
    /\ ret' = Result(cmd, id, TRUE, "", GetEvent(events', id))

\* engram resolve EVENT_ID --reason REASON
CliResolve(id, reason) ==
    /\ migrated
    /\ "events" \in tables
    /\ LET event == GetEvent(events, id)
       IN IF Missing(events, id) THEN Refuse("resolve", id, reason, "NotFound")
          ELSE IF event.status # "active"
          THEN Refuse("resolve", id, reason, "NotActive")
          ELSE Accept("resolve", id, "resolved", reason, None)
    /\ UNCHANGED <<dbvars, fts, now, sessions, sidevars>>

\* supersede without the `old.status != "active"` check
CliSupersede_AnyStatus(id, by) ==
    /\ migrated
    /\ "events" \in tables
    /\ IF Missing(events, id) THEN Refuse("supersede", id, None, "NotFound")
       ELSE IF Missing(events, by) THEN Refuse("supersede", id, None, "ByNotFound")
       ELSE Accept("supersede", id, "superseded", None, by)
    /\ UNCHANGED <<dbvars, fts, now, sessions, sidevars>>

\* engram supersede EVENT_ID --by NEW_EVENT_ID
CliSupersede(id, by) ==
    /\ migrated
    /\ "events" \in tables
    /\ LET old == GetEvent(events, id)
       IN IF Missing(events, id) THEN Refuse("supersede", id, None, "NotFound")
          ELSE IF Missing(events, by) THEN Refuse("supersede", id, None, "ByNotFound")
          ELSE IF old.status # "active"
          THEN Refuse("supersede", id, None, "NotActive")
          ELSE Accept("supersede", id, "superseded", None, by)
    /\ UNCHANGED <<dbvars, fts, now, sessions, sidevars>>

\* reopen passing the old reason on to update_status
CliReopen_KeepingReason(id) ==
    /\ migrated
    /\ "events" \in tables
    /\ LET event == GetEvent(events, id)
       IN IF Missing(events, id) THEN Refuse("reopen", id, None, "NotFound")
          ELSE IF event.status = "superseded"
          THEN Refuse("reopen", id, None, "Superseded")
          ELSE IF event.status = "active"
          THEN Refuse("reopen", id, None, "AlreadyActive")
          ELSE Accept("reopen", id, "active", event.resolved_reason, None)
    /\ UNCHANGED <<dbvars, fts, now, sessions, sidevars>>

\* engram reopen EVENT_ID
CliReopen(id) ==
    /\ migrated
    /\ "events" \in tables
    /\ LET event == GetEvent(events, id)
       IN IF Missing(events, id) THEN Refuse("reopen", id, None, "NotFound")
          ELSE IF event.status = "superseded"
          THEN Refuse("reopen", id, None, "Superseded")
          ELSE IF event.status = "active"
          THEN Refuse("reopen", id, None, "AlreadyActive")
          ELSE Accept("reopen", id, "active", None, None)
    /\ UNCHANGED <<dbvars, fts, now, sessions, sidevars>>

(***************************************************************************)
(* Specification of the lifecycle commands on a store of active events     *)
(***************************************************************************)
MaxCommands == 3

Reason2 == <<"q">>

LifecycleInputs ==
    {Event(<<>>, EmptyTs, "warning", "t", RawContent(1), <<>>, <<>>, "active", "normal")}

NextLifecycle ==
    \/ \E e \in LifecycleInputs : Len(events) < MaxEvents /\ Insert(e)
    \/ \E id \in {GenId(1), GenId(2)}, reason \in {Reason1, Reason2} :
          Len(out) < MaxCommands /\ CliResolve(id, reason)
    \/ \E id \in {GenId(1), GenId(2)} :
          Len(out) < MaxCommands /\ CliReopen(id)
    \/ \E id \in {GenId(1), GenId(2)}, by \in {GenId(1), GenId(2)} :
          Len(out) < MaxCommands /\ CliSupersede(id, by)

SpecLifecycle == Init /\ [][NextLifecycle]_vars

\* the commands given for one event, oldest first
CommandsOn(id) == SelectSeq(out, LAMBDA c : c.id = id)

\* the last n commands given for an event
LastCommands(id, n) ==
    LET cs == CommandsOn(id)
    IN IF Len(cs) < n THEN <<>> ELSE SubSeq(cs, Len(cs) - n + 1, Len(cs))

\* the command sequence ends with a resolve that was accepted, followed by
\* the commands named
EndsWithResolveThen(id, cmds) ==
    LET cs == LastCommands(id, Len(cmds) + 1)
    IN /\ cs # <<>>
       /\ cs[1].cmd = "resolve"
       /\ cs[1].ok
       /\ \A i \in 1..Len(cmds) : cs[i + 1].cmd = cmds[i]

\* the step gives the command for the event
Commanded(cmd, id) ==
    /\ Len(out') = Len(out) + 1
    /\ out'[Len(out')].cmd = cmd
    /\ out'[Len(out')].id = id

\* C14: for an active event the commands resolve with reason r1, reopen,
\* resolve with reason r2 are each accepted; after the reopen the event is
\* active without a resolved_reason, and after the second resolve it is
\* resolved with resolved_reason r2.
C14_ReopenRoundTrip ==
    /\ [][\A r \in Range(events) :
             /\ (r.status = "active" /\ Commanded("resolve", r.id)
                    => out'[Len(out')].ok)
             /\ (EndsWithResolveThen(r.id, <<>>) /\ Commanded("reopen", r.id)
                    => out'[Len(out')].ok)]_vars
    /\ [](\A r \in Range(events) :
             /\ (EndsWithResolveThen(r.id, <<"reopen">>) =>
                    /\ LastCommands(r.id, 1)[1].ok
                    /\ r.status = "active"
                    /\ r.resolved_reason = None)
             /\ (EndsWithResolveThen(r.id, <<"reopen", "resolve">>) =>
                    /\ LastCommands(r.id, 1)[1].ok
                    /\ r.status = "resolved"
                    /\ r.resolved_reason = LastCommands(r.id, 1)[1].reason))

\* an event was resolved with one reason, reopened and resolved with another
C14_Witness ==
    \E r \in Range(events) :
        /\ EndsWithResolveThen(r.id, <<"reopen", "resolve">>)
        /\ LastCommands(r.id, 3)[1].reason = Reason1
        /\ r.status = "resolved"
        /\ r.resolved_reason = Reason2

(***************************************************************************)
(* Specification of the briefing over stores of mutations, warnings and    *)
(* decisions with explicit timestamps                                      *)
(***************************************************************************)
MaxBriefed == 3

FileF == <<"s", "a">>

FileG == <<"s", "b">>

\* instant at which the briefings are generated
BriefNow == Ts(4000, 0)

\* 0:00, 30:00 and a fraction, 30:01
MutationTimes == {Ts(0, 0), Ts(1800, 1), Ts(1801, 0)}

Mutation(ts, agent, scope) ==
    Event(<<>>, ts, "mutation", agent, RawContent(1), scope, <<>>, "active", "normal")

Warning(ts, scope, priority) ==
    Event(<<>>, ts, "warning", "a", RawContent(1), scope, <<>>, "active", priority)

Decision(ts, scope) ==
    Event(<<>>, ts, "decision", "a", RawContent(1), scope, <<>>, "active", "normal")

BriefInputs ==
    {Mutation(ts, "a", <<FileF>>) : ts \in MutationTimes}
    \cup {Mutation(Ts(0, 0), "b", <<FileF>>),
          Mutation(Ts(0, 0), "a", <<FileG>>),
          Mutation(Ts(1801, 0), "a", <<FileG, FileF>>),
          Mutation(Ts(3601, 0), "a", <<>>)}
    \cup {Warning(Ts(0, 1), <<>>, "normal"), Warning(Ts(1800, 1), <<FileF>>, "normal")}
    \cup {Decision(Ts(1801, 0), <<FileF>>)}

InitBriefing ==
    /\ InitDb
    /\ events = <<>>
    /\ fts = <<>>
    /\ now = BriefNow
    /\ ret = NoResult
    /\ out = <<>>
    /\ sessions = <<>>
    /\ meta = NoMeta
    /\ archive = NoArchive
    /\ procs = NoProcs

NextBriefing ==
    \/ \E e \in BriefInputs : Len(events) < MaxBriefed /\ Insert(e)
    \/ \E tie \in TieOrders : Generate(None, None, tie)

SpecBriefing == InitBriefing /\ [][NextBriefing]_vars

\* warnings and decisions placed in the three sections of a briefing
Sectioned(b) ==
    Range(b.critical_warnings) \cup Range(b.focus_relevant) \cup Range(b.other_active)

SharesScope(a, b) == Range(a.scope) \cap Range(b.scope) # {}

FetchedMutations ==
    RecentByType(events, "mutation", MutationCap, Ago(now, DefaultSinceSecs),
                 ret.arg.scope, "active", ret.arg.tie)

\* ids of the mutations an entry of recent_mutations stands for
Members(entry) ==
    IF entry.content.count > 0 THEN Range(entry.related_ids) ELSE {entry.id}

\* a and b follow one another in the time order of their (file, agent) group
Adjacent(group, a, b) ==
    /\ a.id # b.id
    /\ TsLeq(a.timestamp, b.timestamp)
    /\ ~\E c \in group : TsLess(a.timestamp, c.timestamp) /\ TsLess(c.timestamp, b.timestamp)

C19_CollapseSameFileAndAgent ==
    ret.op = "briefing" =>
       LET fetched == Range(FetchedMutations)
           entries == Range(ret.val.recent_mutations)
       IN /\ \A e \in entries, a \in fetched, b \in fetched :
                a.id # b.id /\ {a.id, b.id} \subseteq Members(e) =>
                   /\ Len(a.scope) = 1
                   /\ Len(b.scope) = 1
                   /\ a.scope = b.scope
                   /\ a.agent_id = b.agent_id
          /\ \A a \in fetched :
                Len(a.scope) # 1 =>
                   /\ a \in entries
                   /\ \A e \in entries : e # a => a.id \notin Members(e)

\* two edits of a file by one agent are collapsed while an edit of the same
\* file at the same time by another agent stays an entry of its own
C19_Witness ==
    /\ ret.op = "briefing"
    /\ \E e \in Range(ret.val.recent_mutations), g \in Range(ret.val.recent_mutations) :
          /\ e.content.count = 2
          /\ g.content.count = 0
          /\ g.scope = e.scope
          /\ g.agent_id # e.agent_id
          /\ TruncSeconds(g.timestamp) = TruncSeconds(e.timestamp)

\* C20: a collapsed entry has the id, timestamp, type, agent and scope of
\* the latest mutation of its window and the ids of all mutations of the
\* window as related_ids; every fetched mutation id is in exactly one entry
\* of recent_mutations, as its id or among its related_ids; the entries
\* are ordered newest first.
C20_RollUpKeepsTrail ==
    ret.op = "briefing" =>
       LET fetched == Range(FetchedMutations)
           rm == ret.val.recent_mutations
       IN /\ \A i \in 1..Len(rm) :
                rm[i].content.count > 0 =>
                   LET window == {a \in fetched : a.id \in Range(rm[i].related_ids)}
                   IN /\ Cardinality(window) = Len(rm[i].related_ids)
                      /\ rm[i].content.count = Len(rm[i].related_ids)
                      /\ \A a \in window : TsLeq(a.timestamp, rm[i].timestamp)
                      /\ \E a \in window :
                            /\ a.id = rm[i].id
                            /\ a.timestamp = rm[i].timestamp
                            /\ a.event_type = rm[i].event_type
                            /\ a.agent_id = rm[i].agent_id
                            /\ a.scope = rm[i].scope
          /\ \A a \in fetched :
                Cardinality({i \in 1..Len(rm) : a.id \in Members(rm[i])}) = 1
          /\ \A i \in 1..Len(rm) : Members(rm[i]) \subseteq {a.id : a \in fetched}
          /\ \A i \in 1..Len(rm), j \in 1..Len(rm) :
                i < j => ~TsLess(rm[i].timestamp, rm[j].timestamp)

\* a newer pass-through mutation stands before an entry collapsed from two
\* mutations of different times
C20_Witness ==
    /\ ret.op = "briefing"
    /\ Len(ret.val.recent_mutations) = 2
    /\ ret.val.recent_mutations[1].content.count = 0
    /\ ret.val.recent_mutations[2].content.count = 2
    /\ \E r \in Range(events) :
          /\ r.id \in Range(ret.val.recent_mutations[2].related_ids)
          /\ TsLess(r.timestamp, ret.val.recent_mutations[2].timestamp)

(***************************************************************************)
(* Specification of the briefing over stores whose events change status    *)
(***************************************************************************)
Dir == <<"s">>

Other(type, ts, scope) ==
    Event(<<>>, ts, type, "a", RawContent(1), scope, <<>>, "active", "normal")

SectionInputs ==
    {Warning(Ts(0, 0), <<>>, "normal"), Warning(Ts(0, 0), <<Dir>>, "critical"),
     Warning(Ts(0, 0), <<FileF>>, "high")}
    \cup {Decision(Ts(60, 0), <<FileG>>)}
    \cup {Other("discovery", Ts(0, 0), <<Dir>>), Other("outcome", Ts(60, 0), <<>>)}
    \cup {Mutation(Ts(60, 0), "a", <<FileF>>)}

\* status changes as the lifecycle commands issue them
SectionStatusCalls ==
    {<<"active", None, None>>, <<"resolved", Reason1, None>>,
     <<"superseded", None, GenId(1)>>}

NextSections ==
    \/ \E e \in SectionInputs : Len(events) < MaxEvents /\ Insert(e)
    \/ \E n \in 1..MaxEvents, c \in SectionStatusCalls :
          UpdateStatus(GenId(n), c[1], c[2], c[3])
    \/ \E focus \in {None, FileF}, tie \in TieOrders : Generate(None, focus, tie)

SpecSections == InitBriefing /\ [][NextSections]_vars

Occurrences(seq, e) == Cardinality({i \in 1..Len(seq) : seq[i] = e})

\* the warnings, decisions, discoveries and outcomes a briefing fetched
FetchedActive ==
    LET fetch(type, cap) ==
            Range(RecentByType(events, type, cap, Ago(now, DefaultSinceSecs),
                               ret.arg.scope, "active", ret.arg.tie))
    IN fetch("warning", WarningCap) \cup fetch("decision", DecisionCap)
       \cup fetch("discovery", DiscoveryCap) \cup fetch("outcome", OutcomeCap)

\* C5: every active warning, decision, discovery and outcome fetched for a
\* briefing appears in exactly one of critical_warnings, focus_relevant and
\* other_active, also when it is flagged potentially stale.
C5_SectionsPartition ==
    ret.op = "briefing" =>
       LET b == ret.val
       IN /\ \A e \in FetchedActive :
                Occurrences(b.critical_warnings, e) + Occurrences(b.focus_relevant, e)
                   + Occurrences(b.other_active, e) = 1
          /\ Sectioned(b) \subseteq FetchedActive
          /\ Range(b.potentially_stale) \subseteq Sectioned(b)

C5_Witness ==
    /\ ret.op = "briefing"
    /\ \E e \in Range(ret.val.potentially_stale) : e \in Range(ret.val.focus_relevant)

\* ids a briefing shows in its active sections, mutation and staleness lists
ShownActive(b) ==
    {e.id : e \in Sectioned(b)} \cup {e.id : e \in Range(b.potentially_stale)}
    \cup {e.id : e \in Range(b.recent_mutations)}
    \cup UNION {Range(e.related_ids) : e \in Range(b.recent_mutations)}

\* C6: an event whose status is resolved or superseded never appears in
\* critical_warnings, focus_relevant, other_active, recent_mutations or
\* potentially_stale; a resolved event can appear only in recently_resolved.
C6_OnlyActiveShown ==
    ret.op = "briefing" =>
       \A r \in Range(events) :
          /\ r.status # "active" => r.id \notin ShownActive(ret.val)
          /\ r.status # "resolved" =>
                r.id \notin {e.id : e \in Range(ret.val.recently_resolved)}

C6_Witness ==
    /\ ret.op = "briefing"
    /\ \E r \in Range(events), q \in Range(events) :
          /\ r.status = "resolved"
          /\ r.id \in {e.id : e \in Range(ret.val.recently_resolved)}
          /\ q.status = "superseded"
          /\ q.event_type = r.event_type

(***************************************************************************)
(* Specification of the briefing with a focus path, over events of every   *)
(* priority                                                                *)
(***************************************************************************)
FocusInputs ==
    {Warning(Ts(0, 0), <<>>, "normal"), Warning(Ts(0, 0), <<FileF>>, "critical"),
     Warning(Ts(0, 0), <<FileG, FileF>>, "normal"), Warning(Ts(60, 0), <<FileG>>, "low")}
    \cup {Decision(Ts(0, 0), <<Dir>>)}
    \cup {Other("outcome", Ts(60, 0), <<>>)}

\* the focus paths a caller asks for; None is a briefing without focus
Focuses == {None, FileF, Dir}

NextFocus ==
    \/ \E e \in FocusInputs : Len(events) < MaxBriefed /\ Insert(e)
    \/ \E focus \in Focuses, tie \in TieOrders : Generate(None, focus, tie)

SpecFocus == InitBriefing /\ [][NextFocus]_vars

\* what the briefing of the state fetched for a type
Fetched(type, cap) ==
    RecentByType(events, type, cap, Ago(now, DefaultSinceSecs),
                 ret.arg.scope, "active", ret.arg.tie)

\* C16: critical_warnings holds exactly the fetched active warnings that
\* are critical or have no scope, none of them is in focus_relevant or
\* other_active, and every focus argument gives the same critical_warnings.
C16_CriticalWarnings ==
    ret.op = "briefing" =>
       LET b == ret.val
           expected == {w \in Range(Fetched("warning", WarningCap)) :
                           w.priority = "critical" \/ w.scope = <<>>}
       IN /\ Range(b.critical_warnings) = expected
          /\ Len(b.critical_warnings) = Cardinality(expected)
          /\ expected \cap (Range(b.focus_relevant) \cup Range(b.other_active)) = {}
          /\ \A focus \in Focuses :
                Briefing(events, now, ret.arg.scope, focus, ret.arg.tie).critical_warnings
                   = b.critical_warnings

\* a briefing with a focus shows a global warning of normal priority and a
\* critical warning on the focus path in critical_warnings
C16_Witness ==
    /\ ret.op = "briefing"
    /\ ret.arg.focus = FileF
    /\ \E w \in Range(ret.val.critical_warnings) :
          w.scope = <<>> /\ w.priority = "normal"
    /\ \E w \in Range(ret.val.critical_warnings) :
          w.scope = <<FileF>> /\ w.priority = "critical"
    /\ ret.val.other_active # <<>>

\* a is a string prefix of b
IsPrefix(a, b) == \E n \in 0..Len(b) : a = SubSeq(b, 1, n)

\* some scope entry equals the focus path, is a prefix of it or has it as a
\* prefix
Overlaps(e, focus) ==
    \E s \in Range(e.scope) : s = focus \/ IsPrefix(s, focus) \/ IsPrefix(focus, s)

\* C17: with a focus path, a fetched event outside critical_warnings is in
\* focus_relevant iff one of its scope entries equals the path, is a prefix
\* of it or has it as a prefix, and is in other_active otherwise; without a
\* focus every such event is in other_active.
C17_FocusRelevance ==
    ret.op = "briefing" =>
       LET b == ret.val
           rest == FetchedActive \ Range(b.critical_warnings)
           relevant == {e \in rest : ret.arg.focus # None /\ Overlaps(e, ret.arg.focus)}
       IN /\ Range(b.focus_relevant) = relevant
          /\ Range(b.other_active) = rest \ relevant

\* a briefing focused on a file lists an event whose second scope entry is
\* the file and one scoped to the parent directory, and leaves another out
C17_Witness ==
    /\ ret.op = "briefing"
    /\ ret.arg.focus = FileF
    /\ \E e \in Range(ret.val.focus_relevant) : e.scope = <<FileG, FileF>>
    /\ \E e \in Range(ret.val.focus_relevant) : e.scope = <<Dir>>
    /\ \E e \in Range(ret.val.other_active) : e.scope = <<FileG>>

\* the order in which generate fetched the events it sections
FetchOrder ==
    Fetched("warning", WarningCap) \o Fetched("decision", DecisionCap)
       \o Fetched("discovery", DiscoveryCap) \o Fetched("outcome", OutcomeCap)

FetchIndex(e) == CHOOSE k \in 1..Len(FetchOrder) : FetchOrder[k] = e

\* a goes before b: by priority rank, then newest first, then fetch order
GoesBefore(a, b) ==
    \/ PriorityOrder(a.priority) < PriorityOrder(b.priority)
    \/ /\ PriorityOrder(a.priority) = PriorityOrder(b.priority)
       /\ \/ TsLess(b.timestamp, a.timestamp)
          \/ a.timestamp = b.timestamp /\ FetchIndex(a) < FetchIndex(b)

\* one stable sort of the fetched events on (priority rank, timestamp descending)
CompositeSort(members) ==
    LET input == SelectSeq(FetchOrder, LAMBDA e : e \in members)
        span == 200 * BriefNow.s + 200
    IN StableSort(input, [i \in 1..Len(input) |->
                            PriorityOrder(input[i].priority) * span
                               + (span - 1 - TsKey(input[i].timestamp))])

Ordered(section) ==
    /\ \A i \in 1..Len(section), j \in 1..Len(section) :
          i < j => GoesBefore(section[i], section[j])
    /\ section = CompositeSort(Range(section))

\* C18: critical_warnings, focus_relevant and other_active are each ordered
\* by priority rank, then timestamp newest first, then fetch order, which is
\* the order of one stable sort on (priority rank, timestamp descending).
C18_SectionOrder ==
    ret.op = "briefing" =>
       /\ Ordered(ret.val.critical_warnings)
       /\ Ordered(ret.val.focus_relevant)
       /\ Ordered(ret.val.other_active)

\* other_active holds two events of different types equal in priority and
\* timestamp, and behind them a newer event of lower priority
C18_Witness ==
    /\ ret.op = "briefing"
    /\ Len(ret.val.other_active) = 3
    /\ LET o == ret.val.other_active
       IN /\ o[1].priority = o[2].priority
          /\ o[1].timestamp = o[2].timestamp
          /\ o[1].event_type # o[2].event_type
          /\ PriorityOrder(o[2].priority) < PriorityOrder(o[3].priority)
          /\ TsLess(o[2].timestamp, o[3].timestamp)

(***************************************************************************)
(* Specification of the briefing over stores that hold more events of a    *)
(* type than the briefing fetches                                          *)
(***************************************************************************)
Excess == 1

\* one event per type, each with the number the briefing fetches of it, a
\* mutation touching the scope of the warnings and decisions after them, and
\* an event stored as resolved
VolumeInputs ==
    <<[cap |-> WarningCap, event |-> Warning(Ts(0, 0), <<FileF>>, "normal")],
      [cap |-> DecisionCap, event |-> Decision(Ts(0, 0), <<FileF>>)],
      [cap |-> MutationCap, event |-> Mutation(Ts(60, 0), "a", <<FileF, FileG>>)],
      [cap |-> DiscoveryCap, event |-> Other("discovery", Ts(0, 0), <<>>)],
      [cap |-> OutcomeCap, event |-> Other("outcome", Ts(0, 0), <<>>)],
      [cap |-> ResolvedCap,
       event |-> Event(<<>>, Ts(0, 0), "outcome", "a", RawContent(1), <<>>, <<>>,
                       "resolved", "normal")]>>

\* a batch holding Excess events more than the briefing fetches
VolumeBatch(k) == [i \in 1..(VolumeInputs[k].cap + Excess) |-> VolumeInputs[k].event]

\* the input the last stored event came from
LastInput ==
    IF events = <<>> THEN 0
    ELSE LET last == events[Len(events)]
         IN CHOOSE k \in 1..Len(VolumeInputs) :
               /\ VolumeInputs[k].event.event_type = last.event_type
               /\ VolumeInputs[k].event.status = last.status

\* the batches are stored in the order of VolumeInputs, any of them left out
NextVolume ==
    \/ \E k \in 1..Len(VolumeInputs) : k > LastInput /\ InsertBatch(VolumeBatch(k))
    \/ Generate(None, FileF, "rowid_asc")

SpecVolume == InitBriefing /\ [][NextVolume]_vars

\* how many events of a type the three sections of a briefing hold
SectionCount(b, type) ==
    LET of(section) == Cardinality({i \in 1..Len(section) : section[i].event_type = type})
    IN of(b.critical_warnings) + of(b.focus_relevant) + of(b.other_active)

\* C21: whatever the store holds, the three sections of a briefing hold at
\* most 20 warnings, 15 decisions, 10 discoveries and 5 outcomes and nothing
\* else, recent_mutations at most 20 entries, potentially_stale at most 35
\* and recently_resolved at most 10.
C21_BriefingBounded ==
    ret.op = "briefing" =>
       LET b == ret.val
       IN /\ SectionCount(b, "warning") <= 20
          /\ SectionCount(b, "decision") <= 15
          /\ SectionCount(b, "discovery") <= 10
          /\ SectionCount(b, "outcome") <= 5
          /\ SectionCount(b, "mutation") = 0
          /\ Len(b.critical_warnings) + Len(b.focus_relevant) + Len(b.other_active) <= 50
          /\ Len(b.recent_mutations) <= 20
          /\ Len(b.potentially_stale) <= 35
          /\ Len(b.recently_resolved) <= 10

\* the store holds more than 20 active warnings and more than 15 active
\* decisions, all touched by a later mutation, and the briefing shows 20
\* warnings and reports 35 events as stale
C21_Witness ==
    /\ ret.op = "briefing"
    /\ Cardinality({i \in 1..Len(events) :
                       events[i].event_type = "warning" /\ events[i].status = "active"}) > 20
    /\ Cardinality({i \in 1..Len(events) :
                       events[i].event_type = "decision" /\ events[i].status = "active"}) > 15
    /\ SectionCount(ret.val, "warning") = 20
    /\ Len(ret.val.potentially_stale) = 35

(***************************************************************************)
(* Specification of the briefing over resolved events                      *)
(***************************************************************************)
Resolved(type, ts, scope) ==
    Event(<<>>, ts, type, "a", RawContent(1), scope, <<>>, "resolved", "normal")

\* with a window of one hour the briefing of BriefNow reaches back to
\* Ts(400, 0): an event at that instant, one before it and one after it
ResolvedInputs ==
    {Resolved("decision", Ts(400, 0), <<FileG>>),
     Resolved("outcome", Ts(399, 1), <<>>),
     Warning(Ts(1000, 0), <<FileF>>, "normal")}

\* more resolved events than the briefing shows
ResolvedBatch ==
    [i \in 1..(ResolvedCap + Excess) |-> Resolved("discovery", Ts(2000, 0), <<FileF>>)]

\* generate(scope, since, focus, resolved_window_hours)
ResolvedCalls ==
    {<<None, NoSince, None, ResolvedWindowHours>>,
     <<FileG, Relative(30, "m"), FileF, 1>>}

NextResolved ==
    \/ \E e \in ResolvedInputs : Len(events) < MaxEvents /\ Insert(e)
    \/ (\A r \in Range(events) : r.event_type # "discovery") /\ InsertBatch(ResolvedBatch)
    \/ \E n \in 1..MaxEvents : UpdateStatus(GenId(n), "resolved", Reason1, None)
    \/ \E c \in ResolvedCalls, tie \in TieOrders :
          GenerateWith(c[1], c[2], c[3], c[4], tie)

SpecResolved == InitBriefing /\ [][NextResolved]_vars

\* the resolved rows of the store whose timestamp is at or after the start
\* of the window of the briefing in ret
DueResolved ==
    {r \in Range(events) :
        r.status = "resolved" /\ TsLeq(Ago(now, ret.arg.hours * 3600), r.timestamp)}

DefaultLimit == 50

\* the WHERE clause of query_related: related_ids LIKE '%"id"]%' OR
\* related_ids LIKE '%"id",%' (NULL matches neither)
RelatedLike(row, id) ==
    /\ row.related_ids # None
    /\ \/ Like(<<"%", DQ>> \o id \o <<DQ, "]", "%">>, row.related_ids)
       \/ Like(<<"%", DQ>> \o id \o <<DQ, ",", "%">>, row.related_ids)

QueryRelated(id, limit, tie) ==
    /\ migrated
    /\ "events" \in tables
    /\ LET found == OrderByTimestampDesc(
                       SelectSeq(events, LAMBDA r : RelatedLike(r, id)), tie, limit)
       IN ret' = Result("query_related", [id |-> id, limit |-> limit, tie |-> tie],
                        TRUE, "", [i \in 1..Len(found) |-> RowToEvent(found[i])])
    /\ UNCHANGED <<dbvars, events, fts, now, out, sessions, sidevars>>

IdEa == <<"e", "a">>

IdEab == <<"e", "a", "b">>

IdUpper == <<"E", "A">>

IdUnderscore == <<"e", "_">>

Linked(related) ==
    Event(<<>>, EmptyTs, "outcome", "t", RawContent(1), <<>>, related, "active", "normal")

RelatedInputs ==
    {Linked(<<>>), Linked(<<IdEa>>), Linked(<<IdEab>>), Linked(<<IdEab, IdEa>>),
     Linked(<<IdEa, IdEab>>), Linked(<<IdUpper>>)}

NextRelated ==
    \/ \E e \in RelatedInputs : Len(events) < MaxEvents /\ Insert(e)
    \/ \E id \in {IdEa, IdEab, IdUpper, IdUnderscore}, tie \in TieOrders :
          QueryRelated(id, DefaultLimit, tie)

SpecRelated == InitBriefing /\ [][NextRelated]_vars

\* C7: query_related(x) returns a stored event if and only if some element of
\* its related_ids list is identical to x character for character; an id that
\* contains x or merely resembles it never selects the event.
C7_ExactRelatedId ==
    ret.op = "query_related" =>
       {e.id : e \in Range(ret.val)}
          = {r.id : r \in {q \in Range(events) :
                              ret.arg.id \in Range(JsonLoads(q.related_ids))}}

(***************************************************************************)
(* query_fts and query_structured                                          *)
(***************************************************************************)
\* the characters the unicode61 tokenizer of FTS5 keeps in a token
TokenChars == {"a", "b", "e", "s", "t", "A", "B", "E", "S", "T"} \cup Range(Digits)

FoldAll(s) == [i \in 1..Len(s) |-> Fold(s[i])]

RECURSIVE Tokenize(_, _, _)
\* the tokens of a text: its maximal runs of token characters, case folded
Tokenize(text, cur, acc) ==
    IF text = <<>> THEN (IF cur = <<>> THEN acc ELSE acc \cup {cur})
    ELSE IF Head(text) \in TokenChars
         THEN Tokenize(Tail(text), Append(cur, Fold(Head(text))), acc)
    ELSE Tokenize(Tail(text), <<>>, IF cur = <<>> THEN acc ELSE acc \cup {cur})

\* `events_fts MATCH ?` for a query of one bare word: the word is a token of
\* one of the indexed columns content and scope
FtsMatch(entry, text) ==
    FoldAll(text) \in {FoldAll(w) : w \in entry.content.words}
                        \cup Tokenize(entry.scope, <<>>, {})

\* the rowids of events_fts matching the text
FtsRowids(index, text) ==
    {index[i].rowid : i \in {j \in 1..Len(index) : FtsMatch(index[j], text)}}

\* store.query_fts
QueryFts(rows, index, text, limit, tie) ==
    LET found == OrderByTimestampDesc(
                    SelectSeq(rows, LAMBDA r : r.rowid \in FtsRowids(index, text)),
                    tie, limit)
    IN [i \in 1..Len(found) |-> RowToEvent(found[i])]

\* a QueryFilter; an absent text, scope or related_to is None, an absent
\* agent "", an absent type list the empty set, an absent since EmptyTs
QueryFilter(text, types, agent, scope, since, limit, related) ==
    [text |-> text, event_types |-> types, agent_id |-> agent, scope |-> scope,
     since |-> since, limit |-> limit, related_to |-> related]

\* store.query_structured; its `e.scope LIKE ?` is the condition of
\* recent_by_type, its two `e.related_ids LIKE ?` are those of query_related
QueryStructuredOf(rows, index, f, tie) ==
    IF /\ f.text # None
       /\ f.event_types = {}
       /\ f.agent_id = ""
       /\ f.scope = None
       /\ f.since = EmptyTs
       /\ f.related_to = None
    THEN QueryFts(rows, index, f.text, f.limit, tie)
    ELSE LET hit(r) ==
                 /\ (f.text # None => r.rowid \in FtsRowids(index, f.text))
                 /\ (f.event_types # {} => r.event_type \in f.event_types)
                 /\ (f.agent_id # "" => r.agent_id = f.agent_id)
                 /\ (f.scope # None => ScopeLike(r, f.scope))
                 /\ (f.since # EmptyTs => TsLeq(f.since, r.timestamp))
                 /\ (f.related_to # None => RelatedLike(r, f.related_to))
             found == OrderByTimestampDesc(SelectSeq(rows, hit), tie, f.limit)
         IN [i \in 1..Len(found) |-> RowToEvent(found[i])]

QueryStructured(f, tie) ==
    /\ migrated
    /\ "events" \in tables
    /\ ret' = Result("query_structured", [filter |-> f, tie |-> tie], TRUE, "",
                     QueryStructuredOf(events, fts, f, tie))
    /\ UNCHANGED <<dbvars, events, fts, now, out, sessions, sidevars>>

WordAb == <<"a", "b">>

Recorded(ts, type, agent, words, scope, related) ==
    Event(<<>>, ts, type, agent, Text(2, words), scope, related, "active", "normal")

QueryInputs ==
    {Recorded(Ts(0, 0), "decision", "t", {WordAb}, <<FileF>>, <<IdEa>>),
     Recorded(Ts(60, 0), "outcome", "a", {}, <<>>, <<IdEa, IdEab>>),
     Recorded(Ts(60, 1), "decision", "t", {WordAb}, <<FileG>>, <<>>)}

QueryFilters ==
    {QueryFilter(None, {}, "", None, EmptyTs, 1, None),
     QueryFilter(WordAb, {}, "", None, EmptyTs, DefaultLimit, None),
     QueryFilter(FileF, {"decision"}, "", None, EmptyTs, DefaultLimit, None),
     QueryFilter(None, {"decision"}, "", None, EmptyTs, DefaultLimit, IdEa),
     QueryFilter(None, {}, "t", Dir, Ts(60, 0), DefaultLimit, None),
     QueryFilter(None, {"decision", "outcome"}, "", None, EmptyTs, DefaultLimit,
                 IdUnderscore),
     QueryFilter(None, {}, "", None, Ts(60, 0), DefaultLimit, None)}

NextQuery ==
    \/ \E e \in QueryInputs : Len(events) < MaxEvents /\ Insert(e)
    \/ \E f \in QueryFilters, tie \in TieOrders : QueryStructured(f, tie)

SpecQuery == InitBriefing /\ [][NextQuery]_vars

\* s occurs in text as a run of consecutive characters
Substring(s, text) ==
    \E i \in 0..(Len(text) - Len(s)) : SubSeq(text, i + 1, i + Len(s)) = s

\* the row satisfies every filter that is supplied
Satisfies(r, f) ==
    /\ (f.text # None => FtsMatch(FtsEntry(r), f.text))
    /\ (f.event_types # {} => r.event_type \in f.event_types)
    /\ (f.agent_id # "" => r.agent_id = f.agent_id)
    /\ (f.scope # None =>
           \E path \in Range(JsonLoads(r.scope)) : Substring(f.scope, path))
    /\ (f.since # EmptyTs => TsLeq(f.since, r.timestamp))
    /\ (f.related_to # None => f.related_to \in Range(JsonLoads(r.related_ids)))

\* C23: query_structured returns exactly the events satisfying every
\* supplied filter (text, type set, agent, scope containing the path, since,
\* related-to), an absent filter restricting nothing, newest first and cut to
\* limit; with only text supplied it returns what query_fts(text, limit)
\* returns.
C23_StructuredQuery ==
    ret.op = "query_structured" =>
       LET f == ret.arg.filter
           res == ret.val
           due == {r \in Range(events) : Satisfies(r, f)}
           shown == {res[i].id : i \in 1..Len(res)}
       IN /\ Len(res) = IF Cardinality(due) < f.limit THEN Cardinality(due) ELSE f.limit
          /\ Cardinality(shown) = Len(res)
          /\ \A i \in 1..Len(res) : \E r \in due : res[i] = RowToEvent(r)
          /\ \A i \in 1..Len(res), j \in 1..Len(res) :
                i < j => ~TsLess(res[i].timestamp, res[j].timestamp)
          /\ \A r \in due :
                r.id \notin shown =>
                   \A i \in 1..Len(res) : ~TsLess(res[i].timestamp, r.timestamp)
          /\ (/\ f.text # None
              /\ f.event_types = {}
              /\ f.agent_id = ""
              /\ f.scope = None
              /\ f.since = EmptyTs
              /\ f.related_to = None)
                => res = QueryFts(events, fts, f.text, f.limit, ret.arg.tie)

(***************************************************************************)
(* QueryEngine.execute and the since filter                                *)
(***************************************************************************)
\* QueryEngine.execute
Execute(text, types, agent, scope, since, limit, related, tie) ==
    /\ migrated
    /\ "events" \in tables
    /\ LET arg == [text |-> text, event_types |-> types, agent_id |-> agent,
                   scope |-> scope, since |-> since, limit |-> limit,
                   related_to |-> related, tie |-> tie]
           found == OrderByTimestampDesc(
                       SelectSeq(events, LAMBDA r : RelatedLike(r, related)), tie, limit)
           normalized == IF since = NoSince THEN EmptyTs ELSE ParseSince(since, now)
       IN ret' = Result("execute", arg, TRUE, "",
                    IF /\ related # None
                       /\ text = None /\ types = {} /\ agent = ""
                       /\ scope = None /\ since = NoSince
                    THEN [i \in 1..Len(found) |-> RowToEvent(found[i])]
                    ELSE QueryStructuredOf(
                            events, fts,
                            QueryFilter(text, types, agent, scope, normalized,
                                        limit, related),
                            tie))
    /\ UNCHANGED <<dbvars, events, fts, now, out, sessions, sidevars>>

\* events around Ts(400, 0), which is one hour before BriefNow
SinceEvents ==
    {Other("outcome", Ts(400, 0), <<>>), Other("outcome", Ts(399, 1), <<>>),
     Other("outcome", Ts(3600, 0), <<>>), Other("decision", Ts(0, 0), <<>>)}

\* "1h", "60m", a date, a datetime without offset, and three datetimes with
\* an offset: 01:06:40+01:00, 00:00:00-01:00 and 00:06:40+00:00
SinceInputs ==
    {Relative(1, "h"), Relative(60, "m"), IsoDate(0), IsoDateTime(400),
     IsoWithOffset(4000, 1), IsoWithOffset(0, -1), IsoWithOffset(400, 0)}

NextSince ==
    \/ \E e \in SinceEvents : Len(events) < MaxEvents /\ Insert(e)
    \/ \E since \in SinceInputs, tie \in TieOrders :
          Execute(None, {}, "", None, since, DefaultLimit, None, tie)
    \/ \E tie \in TieOrders :
          Execute(None, {}, "", None, NoSince, DefaultLimit, IdEa, tie)

SpecSince == InitBriefing /\ [][NextSince]_vars

\* the instant a timestamp denotes, in half seconds of UTC
Instant(t) == 2 * (t.s - 3600 * t.off) + t.f

\* the instant a `since` means when given at the clock
SinceInstant(since, clock) ==
    CASE since.kind = "relative" ->
            Instant(clock) - 2 * since.amount * TimeMultipliers[since.unit]
      [] since.kind = "date" -> 2 * 86400 * since.day
      [] since.kind = "datetime" -> 2 * since.s
      [] since.kind = "offset" -> 2 * (since.s - 3600 * since.off)

\* C24: a since filter, relative or an ISO date or datetime with or without
\* offset, is converted to a UTC instant, and the query returns an event if
\* and only if the event's timestamp is at or after that instant in time,
\* the boundary included.
C24_SinceInstant ==
    (ret.op = "execute" /\ ret.arg.since # NoSince) =>
       /\ ParseSince(ret.arg.since, now).off = 0
       /\ Instant(ParseSince(ret.arg.since, now)) = SinceInstant(ret.arg.since, now)
       /\ {e.id : e \in Range(ret.val)}
             = {r.id : r \in {q \in Range(events) :
                                 Instant(q.timestamp) >= SinceInstant(ret.arg.since, now)}}

(***************************************************************************)
(* Sessions                                                                *)
(***************************************************************************)
STALE_SESSION_HOURS == 24

\* the n-th identifier _generate_session_id can hand out
GenSessionId(n) == <<"s", Digits[n + 1]>>

\* _generate_session_id: an identifier no session carries (uuid4 collisions
\* are not modelled)
FreshSessionId(used) ==
    GenSessionId(CHOOSE n \in 1..9 :
                    /\ GenSessionId(n) \notin used
                    /\ \A m \in 1..(n - 1) : GenSessionId(m) \in used)

\* a Session; ended_at is None, or holds the timestamp
Session(id, agent, started, ended) ==
    [id |-> id, agent_id |-> agent, started_at |-> started, ended_at |-> ended]

\* store.insert_session: the row written, or the rows unchanged when the
\* PRIMARY KEY rejects it
InsertSessionRow(rows, sess, clock) ==
    LET row == [sess EXCEPT
                  !.id = IF sess.id = <<>>
                         THEN FreshSessionId({r.id : r \in Range(rows)}) ELSE sess.id,
                  !.started_at = IF sess.started_at = EmptyTs
                                 THEN clock ELSE sess.started_at]
    IN IF \E r \in Range(rows) : r.id = row.id
       THEN [ok |-> FALSE, err |-> "IntegrityError", rows |-> rows, val |-> row]
       ELSE [ok |-> TRUE, err |-> "", rows |-> Append(rows, row), val |-> row]

\* end_session without the `already ended` test
EndSessionRow_Again(rows, id, ended, clock) ==
    IF \A r \in Range(rows) : r.id # id
    THEN [ok |-> FALSE, err |-> "not found", rows |-> rows]
    ELSE [ok |-> TRUE, err |-> "",
          rows |-> [i \in 1..Len(rows) |->
                       IF rows[i].id = id
                       THEN [rows[i] EXCEPT
                               !.ended_at = <<IF ended = EmptyTs THEN clock ELSE ended>>]
                       ELSE rows[i]]]

\* store.end_session
EndSessionRow(rows, id, ended, clock) ==
    IF \A r \in Range(rows) : r.id # id
    THEN [ok |-> FALSE, err |-> "not found", rows |-> rows]
    ELSE IF \E r \in Range(rows) : r.id = id /\ r.ended_at # None
    THEN [ok |-> FALSE, err |-> "already ended", rows |-> rows]
    ELSE [ok |-> TRUE, err |-> "",
          rows |-> [i \in 1..Len(rows) |->
                       IF rows[i].id = id
                       THEN [rows[i] EXCEPT
                               !.ended_at = <<IF ended = EmptyTs THEN clock ELSE ended>>]
                       ELSE rows[i]]]

\* store.get_active_session: the rows ORDER BY started_at DESC LIMIT 1 picks
\* from (SQL leaves the choice among equal started_at open)
ActiveSessions(rows, agent) ==
    {r \in Range(rows) :
        /\ r.agent_id = agent
        /\ r.ended_at = None
        /\ \A q \in Range(rows) :
              (q.agent_id = agent /\ q.ended_at = None)
                 => ~TsLess(r.started_at, q.started_at)}

\* the WHERE clause of cleanup_stale_sessions with `started_at <= ?`
Stale_OrEqual(r, clock, hours) ==
    r.ended_at = None /\ TsLeq(r.started_at, Ago(clock, hours * 3600))

\* the WHERE clause of cleanup_stale_sessions
Stale(r, clock, hours) ==
    r.ended_at = None /\ TsLess(r.started_at, Ago(clock, hours * 3600))

\* store.cleanup_stale_sessions: the rows after the UPDATE and its rowcount
Cleanup(rows, clock, hours) ==
    [rows |-> [i \in 1..Len(rows) |->
                  IF Stale(rows[i], clock, hours)
                  THEN [rows[i] EXCEPT !.ended_at = <<clock>>] ELSE rows[i]],
     count |-> Cardinality({i \in 1..Len(rows) : Stale(rows[i], clock, hours)})]

\* session_start without the auto-end of the previous session
StartSession_NoAutoEnd(rows, agent, clock) ==
    {InsertSessionRow(Cleanup(rows, clock, STALE_SESSION_HOURS).rows,
                      Session(<<>>, agent, EmptyTs, None), clock)}

\* the body shared by session_start of the MCP server and the SessionStart
\* hook: cleanup, end the active session of the agent, insert a new one
StartSession(rows, agent, clock) ==
    LET cleaned == Cleanup(rows, clock, STALE_SESSION_HOURS).rows
        active == ActiveSessions(cleaned, agent)
        ended == IF active = {} THEN {cleaned}
                 ELSE {EndSessionRow(cleaned, a.id, EmptyTs, clock).rows : a \in active}
    IN {InsertSessionRow(e, Session(<<>>, agent, EmptyTs, None), clock) : e \in ended}

SessionDb == migrated /\ "sessions" \in tables

\* mcp_server.session_start
SessionStart(agent) ==
    /\ SessionDb
    /\ \E done \in StartSession(sessions, agent, now) :
          /\ sessions' = done.rows
          /\ ret' = Result("session_start", [agent_id |-> agent], done.ok, done.err,
                           done.val)
    /\ UNCHANGED <<dbvars, events, fts, now, out, sidevars>>

\* hooks.handle_session_start
HandleSessionStart ==
    /\ SessionDb
    /\ \E done \in StartSession(sessions, "claude-code", now) :
          /\ sessions' = done.rows
          /\ ret' = Result("hook_session_start", [agent_id |-> "claude-code"],
                           done.ok, done.err, done.val)
    /\ UNCHANGED <<dbvars, events, fts, now, out, sidevars>>

\* mcp_server.session_end
SessionEnd(id, agent) ==
    /\ SessionDb
    /\ LET cleaned == Cleanup(sessions, now, STALE_SESSION_HOURS).rows
           active == ActiveSessions(cleaned, agent)
           arg == [session_id |-> id, agent_id |-> agent]
       IN IF id = None /\ active = {}
          THEN /\ sessions' = cleaned
               /\ ret' = Result("session_end", arg, TRUE, "", "No active session")
          ELSE \E target \in (IF id = None THEN {a.id : a \in active} ELSE {id}) :
                  LET done == EndSessionRow(cleaned, target, EmptyTs, now)
                  IN /\ sessions' = done.rows
                     /\ ret' = Result("session_end", arg, done.ok, done.err, target)
    /\ UNCHANGED <<dbvars, events, fts, now, out, sidevars>>

\* store.insert_session
InsertSession(sess) ==
    /\ SessionDb
    /\ LET done == InsertSessionRow(sessions, sess, now)
       IN /\ sessions' = done.rows
          /\ ret' = Result("insert_session", sess, done.ok, done.err, done.val)
    /\ UNCHANGED <<dbvars, events, fts, now, out, sidevars>>

\* store.end_session
EndSession(id, ended) ==
    /\ SessionDb
    /\ LET done == EndSessionRow(sessions, id, ended, now)
       IN /\ sessions' = done.rows
          /\ ret' = Result("end_session", [session_id |-> id, ended_at |-> ended],
                           done.ok, done.err, id)
    /\ UNCHANGED <<dbvars, events, fts, now, out, sidevars>>

\* store.cleanup_stale_sessions
CleanupStaleSessions(hours) ==
    /\ SessionDb
    /\ LET done == Cleanup(sessions, now, hours)
       IN /\ sessions' = done.rows
          /\ ret' = Result("cleanup_stale_sessions", [timeout_hours |-> hours],
                           TRUE, "", done.count)
    /\ UNCHANGED <<dbvars, events, fts, now, out, sidevars>>

\* time passes between two calls
TickSecs == 86400

Tick ==
    /\ now' = Ts(now.s + TickSecs, now.f)
    /\ ret' = NoResult
    /\ UNCHANGED <<dbvars, events, fts, out, sessions, sidevars>>

MaxSessions == 3

MaxTicks == 2

Agents == {"claude-code", "b"}

SessionIdMissing == <<"s", "x">>

\* the calls of the MCP tools and of the hook
NextTools ==
    \/ \E agent \in Agents : Len(sessions) < MaxSessions /\ SessionStart(agent)
    \/ Len(sessions) < MaxSessions /\ HandleSessionStart
    \/ \E id \in {None, GenSessionId(1), SessionIdMissing}, agent \in Agents :
          SessionEnd(id, agent)
    \/ now.s < Time0.s + MaxTicks * TickSecs /\ Tick

SpecTools == Init /\ [][NextTools]_vars

ActiveOf(agent) == {i \in 1..Len(sessions) :
                      sessions[i].agent_id = agent /\ sessions[i].ended_at = None}

\* C25: after any sequence of session_start, session_end and SessionStart
\* hook calls from a store without sessions, every agent has at most one
\* session whose ended_at is null.
C25_OneActiveSession ==
    \A agent \in Agents : Cardinality(ActiveOf(agent)) <= 1

\* a session was started for an agent that had an active session: the
\* earlier one is ended, the new one is active
C25_Witness ==
    /\ ret.op \in {"session_start", "hook_session_start"}
    /\ \E i \in 1..Len(sessions), j \in 1..Len(sessions) :
          /\ i < j
          /\ sessions[i].agent_id = sessions[j].agent_id
          /\ sessions[i].ended_at = <<now>>
          /\ sessions[i].started_at = now
          /\ sessions[j].ended_at = None

(***************************************************************************)
(* Specification of the sessions of a store and all their callers          *)
(***************************************************************************)
\* sessions started now, one started a minute before Time0, and one that
\* brings its own id
SessionInputs ==
    {Session(<<>>, "claude-code", EmptyTs, None),
     Session(<<>>, "b", Ts(-60, 0), None),
     Session(GenSessionId(1), "b", EmptyTs, None)}

MaxStored == 2

NextSessions ==
    \/ \E sess \in SessionInputs : Len(sessions) < MaxStored /\ InsertSession(sess)
    \/ \E id \in {GenSessionId(1), SessionIdMissing}, ended \in {EmptyTs, Ts(5, 0)} :
          EndSession(id, ended)
    \/ CleanupStaleSessions(STALE_SESSION_HOURS)
    \/ Len(sessions) < MaxStored /\ SessionStart("b")
    \/ SessionEnd(None, "claude-code")
    \/ now.s < Time0.s + MaxTicks * TickSecs /\ Tick

SpecSessions == Init /\ [][NextSessions]_vars

SessionIds == {sessions[i].id : i \in 1..Len(sessions)}

\* the session rows that are ended
Ended == {i \in 1..Len(sessions) : sessions[i].ended_at # None}

\* C26: sessions are one-way.  An ended session is never changed again;
\* end_session on an ended session fails with an error and on an unknown
\* id with not-found, both leaving the rows as they were;
\* cleanup_stale_sessions changes only sessions whose ended_at is null.
C26_SessionsOneWay ==
    [][/\ \A i \in Ended : i <= Len(sessions') /\ sessions'[i] = sessions[i]
       /\ (ret'.op = "end_session" /\ ret'.arg.session_id \notin SessionIds)
             => ~ret'.ok /\ ret'.err = "not found" /\ sessions' = sessions
       /\ (/\ ret'.op = "end_session"
           /\ \E i \in Ended : sessions[i].id = ret'.arg.session_id)
             => ~ret'.ok /\ ret'.err = "already ended" /\ sessions' = sessions
       /\ ret'.op = "cleanup_stale_sessions"
             => \A i \in 1..Len(sessions) :
                   sessions'[i] # sessions[i] => sessions[i].ended_at = None]_vars

\* end_session was refused for a session that ended at an earlier instant
C26_Witness ==
    /\ ret.op = "end_session"
    /\ ret.err = "already ended"
    /\ \E i \in Ended :
          /\ sessions[i].id = ret.arg.session_id
          /\ TsLess(sessions[i].ended_at[1], now)
          /\ ret.arg.ended_at = EmptyTs

\* the active sessions that started earlier in time than the timeout before
\* the clock
StartedBefore(hours) ==
    {i \in 1..Len(sessions) :
        /\ sessions[i].ended_at = None
        /\ Instant(sessions[i].started_at) < Instant(now) - 2 * 3600 * hours}

\* C27: cleanup_stale_sessions(timeout) sets ended_at on exactly the
\* sessions that are active and started earlier than now - timeout, returns
\* their number and leaves every other session unchanged.
C27_CleanupExact ==
    [][ret'.op = "cleanup_stale_sessions" =>
          /\ Len(sessions') = Len(sessions)
          /\ ret'.val = Cardinality(StartedBefore(ret'.arg.timeout_hours))
          /\ \A i \in 1..Len(sessions) :
                IF i \in StartedBefore(ret'.arg.timeout_hours)
                THEN /\ sessions'[i].ended_at # None
                     /\ sessions'[i] = [sessions[i] EXCEPT
                                           !.ended_at = sessions'[i].ended_at]
                ELSE sessions'[i] = sessions[i]]_vars

\* a cleanup ended one session and kept an active one that started exactly
\* at now - timeout
C27_Witness ==
    /\ ret.op = "cleanup_stale_sessions"
    /\ ret.val = 1
    /\ \E i \in Ended : sessions[i].ended_at = <<now>>
    /\ \E i \in 1..Len(sessions) :
          /\ sessions[i].ended_at = None
          /\ sessions[i].started_at = Ago(now, ret.arg.timeout_hours * 3600)

(***************************************************************************)
(* Schema migration on open                                                *)
(***************************************************************************)
ColumnSet(columns) == Range(columns)

\* ALTER TABLE events ADD COLUMN: existing rows read the column's default
AddColumn(db, name, default) ==
    [db EXCEPT !.cols = Append(db.cols, name),
               !.events = [i \in 1..Len(db.events) |->
                              [c \in DOMAIN db.events[i] \cup {name} |->
                                  IF c \in DOMAIN db.events[i]
                                  THEN db.events[i][c] ELSE default]]]

\* AddColumnIfMissing without the `not in columns` test
AddColumnIfMissing_Unchecked(db, name, default) ==
    AddColumn(db, name, default)

\* `if "<name>" not in columns: ALTER TABLE events ADD COLUMN <name>`
AddColumnIfMissing(db, name, default) ==
    IF name \in ColumnSet(db.cols) THEN db ELSE AddColumn(db, name, default)

\* CREATE TABLE IF NOT EXISTS
CreateTables(db, names) == [db EXCEPT !.tables = db.tables \cup names]

\* set_meta("schema_version", v)
SetVersion(db, v) == [db EXCEPT !.version = v]

\* `if version < 2` block
MigrateTo2(db) ==
    SetVersion(AddColumnIfMissing(db, "related_ids", None), 2)

\* `if version < 3` block
MigrateTo3(db) ==
    SetVersion(CreateTables(db, {"conversations", "conversation_messages"}), 3)

\* `if version < 4` block
MigrateTo4(db) ==
    LET a == AddColumnIfMissing(db, "status", "active")
        b == AddColumnIfMissing(a, "priority", "normal")
        c == AddColumnIfMissing(b, "resolved_reason", None)
        d == AddColumnIfMissing(c, "superseded_by_event_id", None)
    IN SetVersion(d, 4)

\* `if version < 5` block
MigrateTo5(db) ==
    SetVersion(AddColumnIfMissing(CreateTables(db, {"sessions"}), "session_id", None), 5)

\* EventStore._migrate; a missing schema_version key (0) reads as version 1
Migrate(db) ==
    IF "meta" \notin db.tables THEN db
    ELSE LET version == IF db.version = 0 THEN 1 ELSE db.version
             s2 == IF version < 2 THEN MigrateTo2(db) ELSE db
             s3 == IF version < 3 THEN MigrateTo3(s2) ELSE s2
             s4 == IF version < 4 THEN MigrateTo4(s3) ELSE s3
             s5 == IF version < 5 THEN MigrateTo5(s4) ELSE s4
         IN s5

Database ==
    [tables |-> tables, cols |-> cols, version |-> schema_version, events |-> events]

\* first use of the `conn` property by a store object: connect and migrate
Open ==
    /\ ~migrated
    /\ LET db == Migrate(Database)
       IN /\ tables' = db.tables
          /\ cols' = db.cols
          /\ schema_version' = db.version
          /\ events' = db.events
    /\ migrated' = TRUE
    /\ ret' = Result("open", [version |-> schema_version, cols |-> cols], TRUE, "", <<>>)
    /\ UNCHANGED <<checks, fts, now, out, sessions, sidevars>>

\* close() and a new EventStore(db_path) on the same file
Reopen ==
    /\ migrated
    /\ migrated' = FALSE
    /\ ret' = Result("close", <<>>, TRUE, "", <<>>)
    /\ UNCHANGED <<tables, cols, checks, schema_version, events, fts, now, out,
                   sessions, sidevars>>

(***************************************************************************)
(* Specification of opening database files of every schema version         *)
(***************************************************************************)
MaxLegacyRows == 2

\* columns, tables and CHECKs of a version 1 file (tests/test_migration.py)
V1Columns == <<"id", "timestamp", "event_type", "agent_id", "content", "scope">>

V1Tables == {"events", "events_fts", "meta"}

V1Checks == {"event_type", "content"}

\* the additive schema changes in the order _migrate applies them
Additions ==
    <<"related_ids", "conversations", "status", "priority", "resolved_reason",
      "superseded_by_event_id", "sessions", "session_id">>

AddedTables(name) ==
    CASE name = "conversations" -> {"conversations", "conversation_messages"}
      [] name = "sessions" -> {"sessions"}
      [] OTHER -> {}

\* how many of the additions the steps up to version v have made
AdditionsUpTo(v) ==
    CASE v = 2 -> 1
      [] v = 3 -> 2
      [] v = 4 -> 6
      [] v = 5 -> 8
      [] OTHER -> 0

\* a version 1 file to which the first k additions were applied
ColumnsAfter(k) ==
    V1Columns \o SelectSeq(SubSeq(Additions, 1, k), LAMBDA a : AddedTables(a) = {})

TablesAfter(k) ==
    V1Tables \cup UNION {AddedTables(Additions[i]) : i \in 1..k}

\* rows written before the file was opened, as full rows
LegacyRows ==
    {[rowid |-> 0, id |-> IdA, timestamp |-> Ts(0, 0), event_type |-> "decision",
      agent_id |-> "t", content |-> RawContent(15),
      scope |-> JsonDumps(<<FileF>>), related_ids |-> JsonDumps(<<IdEa>>),
      status |-> "resolved", priority |-> "high", resolved_reason |-> Reason1,
      superseded_by_event_id |-> None, session_id |-> None],
     [rowid |-> 0, id |-> IdEa, timestamp |-> Ts(60, 0), event_type |-> "mutation",
      agent_id |-> "t", content |-> RawContent(MaxContent),
      scope |-> None, related_ids |-> None,
      status |-> "active", priority |-> "normal", resolved_reason |-> None,
      superseded_by_event_id |-> None, session_id |-> None]}

\* the value a column added by ALTER TABLE gives to rows already stored
ColumnDefault(name) ==
    CASE name = "status" -> "active"
      [] name = "priority" -> "normal"
      [] OTHER -> None

\* the part of a row held by a file with the first k additions: the columns
\* of a step that did not complete were never written, they hold defaults
StoredPart(row, k, n) ==
    [c \in ColumnSet(ColumnsAfter(k)) \cup {"rowid"} |->
        IF c = "rowid" THEN n
        ELSE IF c \in {"status", "priority", "resolved_reason"} /\ k < AdditionsUpTo(4)
             THEN ColumnDefault(c)
             ELSE row[c]]

LegacyStores ==
    {rows \in UNION {[1..n -> LegacyRows] : n \in 0..MaxLegacyRows} :
        \A i \in 1..Len(rows), j \in 1..Len(rows) : i # j => rows[i].id # rows[j].id}

InitMigrate ==
    \E origin \in {1, SCHEMA_VERSION}, k \in 0..Len(Additions),
       v \in {0} \cup 2..SCHEMA_VERSION, rows \in LegacyStores :
        /\ AdditionsUpTo(v) <= k
        /\ (origin = SCHEMA_VERSION => k = Len(Additions) /\ v \in {0, SCHEMA_VERSION})
        /\ tables = TablesAfter(k)
        /\ cols = ColumnsAfter(k)
        /\ checks = (IF origin = 1 THEN V1Checks ELSE AllChecks)
        /\ schema_version = v
        /\ migrated = FALSE
        /\ events = [i \in 1..Len(rows) |-> StoredPart(rows[i], k, i)]
        /\ fts = [i \in 1..Len(rows) |->
                     [rowid |-> i, content |-> rows[i].content, scope |-> rows[i].scope]]
        /\ now = BriefNow
        /\ ret = NoResult
        /\ out = <<>>
        /\ sessions = <<>>
        /\ meta = NoMeta
        /\ archive = NoArchive
        /\ procs = NoProcs

MigratedInputs ==
    {Event(<<>>, EmptyTs, "outcome", "t", RawContent(1), <<>>, <<IdA>>, "active", "normal"),
     Event(<<>>, EmptyTs, "bogus", "t", RawContent(1), <<>>, <<>>, "active", "normal"),
     Event(<<>>, EmptyTs, "outcome", "t", RawContent(1), <<>>, <<>>, "bogus", "normal"),
     Event(<<>>, EmptyTs, "outcome", "t", RawContent(1), <<>>, <<>>, "active", "bogus")}

NextMigrate ==
    \/ Open
    \/ Reopen
    \/ \E e \in MigratedInputs : Len(events) < MaxLegacyRows /\ Insert(e)

SpecMigrate == InitMigrate /\ [][NextMigrate]_vars

\* the step is an open of a database file by a new store object
Opened == ~migrated /\ migrated' /\ ret'.op = "open"

\* C10: opening a file at any schema version from 1 to the current one, also
\* with only some steps applied, leaves every current column and table
\* present exactly once, every row readable with unchanged content and
\* schema_version at the current version; opening it again changes nothing.
C10_MigrationConverges ==
    [][Opened =>
          /\ \A c \in ColumnSet(AllColumns) : Occurrences(cols', c) = 1
          /\ ColumnSet(cols') = ColumnSet(AllColumns)
          /\ tables' = AllTables
          /\ schema_version' = SCHEMA_VERSION
          /\ Len(events') = Len(events)
          /\ \A i \in 1..Len(events) :
                /\ \A c \in DOMAIN events[i] : events'[i][c] = events[i][c]
                /\ RowToEvent(events'[i]).id = events[i].id
                /\ RowToEvent(events'[i]).content = events[i].content
          /\ (schema_version = SCHEMA_VERSION =>
                 <<tables', cols', events', schema_version', fts'>>
                    = <<tables, cols, events, schema_version, fts>>)]_vars

\* a file with rows, recorded at version 3 and with only the first column of
\* the step to version 4 added, has just been opened
C10_Witness ==
    /\ ret.op = "open"
    /\ ret.arg.version = 3
    /\ "status" \in ColumnSet(ret.arg.cols)
    /\ "priority" \notin ColumnSet(ret.arg.cols)
    /\ schema_version = SCHEMA_VERSION
    /\ \E r \in Range(events) : r.id = IdA /\ r.status = "active" /\ r.priority = "normal"

\* C29: the enumerated fields fail closed on every store, fresh or migrated
\* from an older schema: inserting an event whose type, status or priority
\* is outside its set fails and stores nothing.
C29_EnumsFailClosed ==
    [][(/\ ret'.op = "insert"
        /\ \/ ret'.arg.event_type \notin EventTypes
           \/ ret'.arg.status \notin Statuses
           \/ ret'.arg.priority \notin Priorities)
          => ~ret'.ok /\ events' = events /\ fts' = fts]_vars

(***************************************************************************)
(* Opening a database file when a migration step fails                     *)
(***************************************************************************)
\* EventStore._migrate up to the step that raises: the steps before it have
\* run and committed (ALTER TABLE, executescript and set_meta each commit on
\* their own; no transaction spans the run)
MigrateBefore(db, failing) ==
    LET version == IF db.version = 0 THEN 1 ELSE db.version
        s2 == IF version < 2 /\ 2 < failing THEN MigrateTo2(db) ELSE db
        s3 == IF version < 3 /\ 3 < failing THEN MigrateTo3(s2) ELSE s2
        s4 == IF version < 4 /\ 4 < failing THEN MigrateTo4(s3) ELSE s3
    IN s4

\* first use of `conn` when the first statement of a step that is due
\* raises (a conflicting object in the file, a lock, an I/O error); the
\* exception ends the process, the next open is made by a new EventStore
OpenFails(failing) ==
    /\ ~migrated
    /\ "meta" \in tables
    /\ (IF schema_version = 0 THEN 1 ELSE schema_version) < failing
    /\ LET db == MigrateBefore(Database, failing)
       IN /\ tables' = db.tables
          /\ cols' = db.cols
          /\ schema_version' = db.version
          /\ events' = db.events
    /\ ret' = Result("open", [version |-> schema_version, cols |-> cols], FALSE,
                     "OperationalError", failing)
    /\ UNCHANGED <<checks, migrated, fts, now, out, sessions, sidevars>>

NextMigrateFailing ==
    \/ NextMigrate
    \/ \E failing \in 2..SCHEMA_VERSION : OpenFails(failing)

SpecMigrateFailing == InitMigrate /\ [][NextMigrateFailing]_vars

\* C30: when a migration step fails part-way through an open, the database
\* file is left as it was before that open: no column, table or
\* schema_version change of an earlier step of the run remains.
C30_FailedMigrationLeavesFile ==
    [][(ret'.op = "open" /\ ~ret'.ok)
          => <<tables', cols', schema_version', events'>>
                = <<tables, cols, schema_version, events>>]_vars

(***************************************************************************)
(* Checkpoints (save_checkpoint, get_latest_checkpoint, get_checkpoint)    *)
(***************************************************************************)
Checkpoint(id, file_path, agent, created, count, enriched) ==
    [id |-> id, file_path |-> file_path, agent_id |-> agent, created_at |-> created,
     event_count_at_creation |-> count, enriched_sections |-> enriched,
     session_id |-> None]

\* f"checkpoint:{checkpoint.id}"
CheckpointKey(id) == <<"c", "h", "e", "c", "k", "p", "o", "i", "n", "t", ":">> \o id

\* "checkpoint:latest"
LatestKey == CheckpointKey(<<"l", "a", "t", "e", "s", "t">>)

JsonNull == <<"n", "u", "l", "l">>

\* json.dumps(data): the object's members, each the JSON text of its value
\* (numbers and the timestamp are written as they are)
CheckpointDumps(c) ==
    [id |-> JsonString(c.id), file_path |-> JsonString(c.file_path),
     agent_id |-> c.agent_id, created_at |-> c.created_at,
     event_count_at_creation |-> c.event_count_at_creation,
     enriched_sections |-> IF c.enriched_sections = None THEN JsonNull
                           ELSE JsonDumps(c.enriched_sections),
     session_id |-> IF c.session_id = None THEN JsonNull
                    ELSE JsonString(c.session_id)]

\* Checkpoint(**json.loads(raw))
CheckpointLoads(raw) ==
    [id |-> JsonParse(raw.id, <<>>, FALSE, <<>>)[1],
     file_path |-> JsonParse(raw.file_path, <<>>, FALSE, <<>>)[1],
     agent_id |-> raw.agent_id, created_at |-> raw.created_at,
     event_count_at_creation |-> raw.event_count_at_creation,
     enriched_sections |-> IF raw.enriched_sections = JsonNull THEN None
                           ELSE JsonParse(raw.enriched_sections, <<>>, FALSE, <<>>),
     session_id |-> IF raw.session_id = JsonNull THEN None
                    ELSE JsonParse(raw.session_id, <<>>, FALSE, <<>>)[1]]

\* set_meta: INSERT ... ON CONFLICT(key) DO UPDATE SET value = excluded.value
SetMeta(m, key, value) ==
    {r \in m : r.key # key} \cup {[key |-> key, value |-> value]}

\* get_meta followed by `if not raw: return None`: no value, or the one value
GetMeta(m, key) == {r.value : r \in {q \in m : q.key = key}}

\* the n-th identifier _generate_checkpoint_id can hand out ("chk-" and hex
\* digits)
GenCheckpointId(n) == <<"c", Digits[n + 1]>>

\* _generate_checkpoint_id: an identifier no stored checkpoint carries (uuid4
\* collisions are not modelled)
FreshCheckpointId(m) ==
    GenCheckpointId(CHOOSE n \in 1..9 :
                       /\ GetMeta(m, CheckpointKey(GenCheckpointId(n))) = {}
                       /\ \A k \in 1..(n - 1) :
                             GetMeta(m, CheckpointKey(GenCheckpointId(k))) # {})

\* store.get_checkpoint: None is <<>>, a checkpoint c is <<c>>
GetCheckpointOf(m, id) ==
    LET raw == GetMeta(m, CheckpointKey(id))
    IN IF raw = {} THEN <<>> ELSE <<CheckpointLoads(CHOOSE v \in raw : TRUE)>>

\* store.get_latest_checkpoint
GetLatestCheckpointOf(m) ==
    LET raw == GetMeta(m, LatestKey)
    IN IF raw = {} THEN <<>> ELSE <<CheckpointLoads(CHOOSE v \in raw : TRUE)>>

\* store.save_checkpoint
SaveCheckpoint(c) ==
    /\ migrated
    /\ "meta" \in tables
    /\ LET chk == [c EXCEPT
                     !.id = IF c.id = <<>> THEN FreshCheckpointId(meta) ELSE c.id,
                     !.created_at = IF c.created_at = EmptyTs THEN now
                                    ELSE c.created_at,
                     !.event_count_at_creation =
                         IF c.event_count_at_creation = 0 THEN Len(events)
                         ELSE c.event_count_at_creation]
           data == CheckpointDumps(chk)
       IN /\ meta' = SetMeta(SetMeta(meta, CheckpointKey(chk.id), data),
                             LatestKey, data)
          /\ ret' = Result("save_checkpoint", c, TRUE, "", chk)
    /\ UNCHANGED <<dbvars, events, fts, now, out, sessions, archive, procs>>

GetCheckpoint(id) ==
    /\ migrated
    /\ "meta" \in tables
    /\ ret' = Result("get_checkpoint", id, TRUE, "", GetCheckpointOf(meta, id))
    /\ UNCHANGED <<dbvars, events, fts, now, out, sessions, sidevars>>

GetLatestCheckpoint ==
    /\ migrated
    /\ "meta" \in tables
    /\ ret' = Result("get_latest_checkpoint", None, TRUE, "",
                     GetLatestCheckpointOf(meta))
    /\ UNCHANGED <<dbvars, events, fts, now, out, sessions, sidevars>>

(***************************************************************************)
(* Specification of the checkpoints                                        *)
(***************************************************************************)
\* the keys of the meta table beyond which no checkpoint is saved
MaxCheckpoints == 2

IdChk == <<"c", "a">>

SectionName == <<"s", DQ>>

\* checkpoints as the checkpoint engine builds them (no id, no time, no
\* count) and checkpoints a caller of the store gives an id
CheckpointInputs ==
    {Checkpoint(<<>>, FileF, "cli", EmptyTs, 0, None),
     Checkpoint(<<>>, FileG, "cli", EmptyTs, 0, <<SectionName>>),
     Checkpoint(IdChk, FileF, "cli", EmptyTs, 0, None),
     Checkpoint(IdChk, FileG, "cli", Ts(5, 0), 7, <<SectionName>>)}

CheckpointIds == {IdChk, GenCheckpointId(1), GenCheckpointId(2), IdMissing}

NextCheckpoints ==
    \/ \E e \in InsertInputs : Len(events) < MaxEvents /\ Insert(e)
    \/ \E c \in CheckpointInputs :
          Cardinality(meta) <= MaxCheckpoints /\ SaveCheckpoint(c)
    \/ \E id \in CheckpointIds : GetCheckpoint(id)
    \/ GetLatestCheckpoint

SpecCheckpoints == Init /\ [][NextCheckpoints]_vars

\* the identifiers under which a checkpoint is stored
SavedIds(m) ==
    {id \in CheckpointIds :
        GetCheckpointOf(m, id) # <<>> /\ GetCheckpointOf(m, id)[1].id = id}

\* C31: after save_checkpoint, get_latest_checkpoint returns the checkpoint
\* just saved, and get_checkpoint(id) returns for every checkpoint saved
\* before what it returned before the save: no save deletes or alters an
\* earlier checkpoint.
C31_CheckpointsAppendOnly ==
    [][ret'.op = "save_checkpoint" =>
          /\ GetLatestCheckpointOf(meta') = <<ret'.val>>
          /\ GetCheckpointOf(meta', ret'.val.id) = <<ret'.val>>
          /\ \A id \in SavedIds(meta) :
                GetCheckpointOf(meta', id) = GetCheckpointOf(meta, id)]_vars

(***************************************************************************)
(* Garbage collection (GarbageCollector.collect)                           *)
(***************************************************************************)
ArchivedTypes == {"mutation", "outcome"}

\* SELECT * FROM events WHERE event_type IN ('mutation', 'outcome')
\* AND timestamp < ? ORDER BY timestamp
Archivable(rows, cutoff) ==
    LET old == SelectSeq(rows, LAMBDA r : /\ r.event_type \in ArchivedTypes
                                          /\ TsLess(r.timestamp, cutoff))
    IN StableSort(old, Older(old))

\* DELETE FROM events WHERE id IN (...): the schema has no trigger on
\* DELETE, so the full-text index is not touched
DeleteEvents(rows, ids) == SelectSeq(rows, LAMBDA r : r.id \notin ids)

\* the outcome of collect: the main table, the archive store, whether the
\* call returned, and the dict it returned
CollectOf(rows, store, clock, max_age_days, dry_run) ==
    LET cutoff == Ago(clock, TimeMultipliers.d * max_age_days)
        archivable == Archivable(rows, cutoff)
        evs == [i \in 1..Len(archivable) |-> RowToEvent(archivable[i])]
        done == Transaction(store.events, store.fts, AllChecks, evs)
    IN IF dry_run
       THEN [ok |-> TRUE, events |-> rows, archive |-> store,
             val |-> [archived |-> 0, would_archive |-> Len(archivable),
                      cutoff |-> cutoff]]
       ELSE IF archivable = <<>>
       THEN [ok |-> TRUE, events |-> rows, archive |-> store,
             val |-> [archived |-> 0, cutoff |-> cutoff]]
       ELSE IF ~done.ok
       THEN [ok |-> FALSE, events |-> rows, archive |-> store,
             val |-> [cutoff |-> cutoff]]
       ELSE [ok |-> TRUE, events |-> DeleteEvents(rows, IdsOf(archivable)),
             archive |-> [events |-> done.events, fts |-> done.fts],
             val |-> [archived |-> Len(archivable), cutoff |-> cutoff]]

Collect(max_age_days, dry_run) ==
    /\ migrated
    /\ "events" \in tables
    /\ LET done == CollectOf(events, archive, now, max_age_days, dry_run)
       IN /\ events' = done.events
          /\ archive' = done.archive
          /\ ret' = Result("collect",
                           [max_age_days |-> max_age_days, dry_run |-> dry_run],
                           done.ok, IF done.ok THEN "" ELSE "IntegrityError",
                           done.val)
    /\ UNCHANGED <<dbvars, fts, now, out, sessions, meta, procs>>

\* store.query_fts called on its own
QueryFtsCall(text, limit, tie) ==
    /\ migrated
    /\ "events" \in tables
    /\ ret' = Result("query_fts", [text |-> text, limit |-> limit, tie |-> tie],
                     TRUE, "", QueryFts(events, fts, text, limit, tie))
    /\ UNCHANGED <<dbvars, events, fts, now, out, sessions, sidevars>>

(***************************************************************************)
(* Specification of the garbage collection                                 *)
(***************************************************************************)
\* the clock of the collections: one day, one hour and a fraction
GcNow == Ts(90000, 1)

InitGc ==
    /\ InitDb
    /\ events = <<>>
    /\ fts = <<>>
    /\ now = GcNow
    /\ ret = NoResult
    /\ out = <<>>
    /\ sessions = <<>>
    /\ meta = NoMeta
    /\ archive = NoArchive
    /\ procs = NoProcs

\* a mutation recorded half a second before the one-day cutoff, an outcome
\* at the cutoff, an old warning, a mutation seeded from `git log` (%aI
\* keeps the author's offset: 02:00:00+01:00, half a second before the
\* cutoff) and a decision recorded now
GcInputs ==
    {Event(<<>>, Ts(3600, 0), "mutation", "a", Text(2, {WordAb}), <<FileF>>,
           <<IdEa>>, "active", "high"),
     Other("outcome", Ts(3600, 1), <<>>),
     Warning(Ts(0, 0), <<FileF>>, "normal"),
     Event(<<>>, TsOffset(7200, 1), "mutation", "git-bootstrap", RawContent(1),
           <<>>, <<>>, "active", "normal"),
     Decision(EmptyTs, <<>>)}

\* an old outcome and a decision recorded now, handed to insert_batch
GcBatch == <<Other("outcome", Ts(0, 0), <<FileG>>), Decision(EmptyTs, <<>>)>>

MaxAgeDays == {0, 1}

\* the events recorded in one run, archived ones included
MaxRecorded == 3

NextGc ==
    \/ \E e \in GcInputs :
          Len(events) < MaxEvents /\ Len(fts) < MaxRecorded /\ Insert(e)
    \/ /\ events = <<>>
       /\ Len(fts) + Len(GcBatch) <= MaxRecorded
       /\ InsertBatch(GcBatch)
    \/ UpdateStatus(GenId(1), "resolved", Reason1, None)
    \/ \E days \in MaxAgeDays, dry_run \in BOOLEAN : Collect(days, dry_run)
    \/ QueryFtsCall(WordAb, DefaultLimit, "rowid_asc")

SpecGc == InitGc /\ [][NextGc]_vars

\* the rows a collect is to move: mutations and outcomes recorded before the
\* instant max_age_days before the clock
Due(rows, clock, max_age_days) ==
    {r \in Range(rows) :
        /\ r.event_type \in ArchivedTypes
        /\ Instant(r.timestamp)
              < Instant(clock) - 2 * TimeMultipliers.d * max_age_days}

\* C32: collect removes from the main store exactly the mutations and
\* outcomes older than the cutoff, each of them is in the archive store
\* afterwards, every other event stays in the main store, and with dry_run
\* neither store changes.
C32_CollectMovesEvents ==
    [][ret'.op = "collect" =>
          LET due == Due(events, now, ret'.arg.max_age_days)
          IN IF ret'.arg.dry_run
             THEN events' = events /\ archive' = archive
             ELSE /\ Range(events') = Range(events) \ due
                  /\ \A r \in due : r.id \in IdsOf(archive'.events)
                  /\ \A r \in Range(archive.events) :
                        r.id \in IdsOf(archive'.events)]_vars

(***************************************************************************)
(* The lifecycle commands run one after another                            *)
(***************************************************************************)
LifecycleCommands == {"resolve", "supersede", "reopen"}

\* the status a command requires of the event it is given
RequiredStatus(cmd) == IF cmd = "reopen" THEN "resolved" ELSE "active"

\* the status a command gives the event
GivenStatus(cmd) ==
    CASE cmd = "resolve" -> "resolved"
      [] cmd = "supersede" -> "superseded"
      [] cmd = "reopen" -> "active"

StatusOf(rows, id) == (CHOOSE r \in Range(rows) : r.id = id).status

\* C33: a resolve, supersede or reopen command that succeeds takes its event
\* from active to resolved, from active to superseded (by a stored event) or
\* from resolved to active and touches no other event; a command given a
\* missing event, a missing superseding event or an event in another status
\* exits with an error and leaves the events as they were.
C33_CommandsLegal ==
    [][ret'.op \in LifecycleCommands =>
          LET id == ret'.arg
              found == id \in IdsOf(events)
          IN IF ret'.ok
             THEN /\ found
                  /\ StatusOf(events, id) = RequiredStatus(ret'.op)
                  /\ StatusOf(events', id) = GivenStatus(ret'.op)
                  /\ ret'.op = "supersede" =>
                        GetEvent(events', id).superseded_by \in IdsOf(events)
                  /\ \A r \in Range(events) : r.id # id => r \in Range(events')
                  /\ Len(events') = Len(events)
             ELSE /\ events' = events
                  /\ \/ ~found
                     \/ StatusOf(events, id) # RequiredStatus(ret'.op)
                     \/ ret'.op = "supersede"]_vars

\* an event was resolved and a supersede command for it, naming a stored
\* event, was then refused
C33_Witness ==
    /\ Len(events) = 2
    /\ Len(out) >= 2
    /\ out[1].cmd = "resolve" /\ out[1].ok
    /\ out[2].cmd = "supersede" /\ ~out[2].ok /\ out[2].err = "NotActive"
    /\ out[2].id = out[1].id
    /\ StatusOf(events, out[1].id) = "resolved"

(***************************************************************************)
(* Staleness and the deduplication of mutations                            *)
(***************************************************************************)
\* C34: potentially_stale, which generate computes against the deduplicated
\* mutations, is the list _detect_stale gives for the same warnings and
\* decisions against the mutations as they were fetched: collapsing a
\* window neither hides nor adds a staleness flag.
C34_StaleIgnoresDedup ==
    ret.op = "briefing" =>
       ret.val.potentially_stale
          = DetectStale(Fetched("warning", WarningCap)
                           \o Fetched("decision", DecisionCap),
                        FetchedMutations)

\* a briefing with a collapsed window and a warning or decision that is
\* stale because of it, although a mutation of the window is not later than
\* the warning or decision
C34_Witness ==
    /\ ret.op = "briefing"
    /\ \E i \in 1..Len(ret.val.recent_mutations),
          j \in 1..Len(ret.val.potentially_stale) :
          LET m == ret.val.recent_mutations[i]
              e == ret.val.potentially_stale[j]
          IN /\ m.content.count >= 2
             /\ Range(e.scope) \cap Range(m.scope) # {}
             /\ TsLess(e.timestamp, m.timestamp)
             /\ \E r \in Range(events) :
                   /\ r.id \in Range(m.related_ids)
                   /\ TsLeq(r.timestamp, e.timestamp)
             /\ \A r \in Range(events) :
                   r.event_type = "mutation" => r.id \in Range(m.related_ids)

(***************************************************************************)
(* Lifecycle commands run from separate processes                          *)
(***************************************************************************)
\* a command that has passed its checks and has not yet called
\* update_status
InFlight(cmd, id, reason, by) == [cmd |-> cmd, id |-> id, reason |-> reason, by |-> by]

\* the error a command exits with after get_event, "" when its checks pass.
\* The command reads with SELECTs of their own, outside any transaction.
CommandCheck(rows, cmd, id, by) ==
    IF Missing(rows, id) THEN "NotFound"
    ELSE IF cmd = "supersede" /\ Missing(rows, by) THEN "ByNotFound"
    ELSE IF cmd = "reopen" /\ GetEvent(rows, id).status = "superseded"
         THEN "Superseded"
    ELSE IF cmd = "reopen" /\ GetEvent(rows, id).status = "active"
         THEN "AlreadyActive"
    ELSE IF cmd # "reopen" /\ GetEvent(rows, id).status # "active"
         THEN "NotActive"
    ELSE ""

\* a process runs a command up to its call of update_status: it reads the
\* event and either exits with an error or goes on
BeginCommand(cmd, id, reason, by) ==
    /\ migrated
    /\ "events" \in tables
    /\ LET err == CommandCheck(events, cmd, id, by)
       IN IF err # ""
          THEN /\ out' = Append(out, Echo(cmd, id, reason, FALSE, err))
               /\ ret' = Result(cmd, id, FALSE, err, <<>>)
               /\ UNCHANGED procs
          ELSE /\ procs' = Append(procs, InFlight(cmd, id, reason, by))
               /\ ret' = NoResult
               /\ UNCHANGED out
    /\ UNCHANGED <<dbvars, events, fts, now, sessions, meta, archive>>

\* the i-th command in flight calls update_status, which looks the event up
\* and writes the status in a transaction of its own (UPDATE ... WHERE id = ?),
\* and exits
FinishCommand(i) ==
    /\ i \in 1..Len(procs)
    /\ LET c == procs[i]
       IN /\ events' = SetStatus(events, c.id, GivenStatus(c.cmd), c.reason, c.by)
          /\ out' = Append(out, Echo(c.cmd, c.id, c.reason, TRUE, ""))
          /\ ret' = Result(c.cmd, c.id, TRUE, "", GetEvent(events', c.id))
          /\ procs' = SubSeq(procs, 1, i - 1) \o SubSeq(procs, i + 1, Len(procs))
    /\ UNCHANGED <<dbvars, fts, now, sessions, meta, archive>>

\* processes running a command at the same time
MaxProcs == 2

NextConcurrent ==
    \/ \E e \in LifecycleInputs : Len(events) < MaxEvents /\ Insert(e)
    \/ \E cmd \in LifecycleCommands, id \in {GenId(1), GenId(2)} :
          /\ Len(procs) < MaxProcs
          /\ Len(out) + Len(procs) < MaxCommands
          /\ BeginCommand(cmd, id,
                          IF cmd = "resolve" THEN Reason1 ELSE None,
                          IF cmd = "supersede" THEN GenId(2) ELSE None)
    \/ \E i \in 1..MaxProcs : FinishCommand(i)

SpecConcurrent == Init /\ [][NextConcurrent]_vars

LegalTransitions ==
    {<<"active", "resolved">>, <<"active", "superseded">>, <<"resolved", "active">>}

\* C35: with lifecycle commands on one event running from separate
\* processes, each reading the status and then writing, every change of the
\* event's status is a legal transition: active to resolved, active to
\* superseded or resolved to active, never resolved to superseded and never
\* out of superseded.
C35_ConcurrentCommandsLegal ==
    [][\A i \in 1..Len(events) :
          (i <= Len(events') /\ events'[i].status # events[i].status)
             => <<events[i].status, events'[i].status>> \in LegalTransitions]_vars

(***************************************************************************)
(* session_start run from separate processes                               *)
(***************************************************************************)
\* a session_start call between two of its statements: pc names the
\* statement it runs next, active the session get_active_session returned
Starting(agent, pc, active) ==
    [cmd |-> "session_start", agent_id |-> agent, pc |-> pc, active |-> active]

WithoutProc(ps, i) == SubSeq(ps, 1, i - 1) \o SubSeq(ps, i + 1, Len(ps))

\* store.cleanup_stale_sessions(), the first statement of session_start
StartCleanup(agent) ==
    /\ SessionDb
    /\ sessions' = Cleanup(sessions, now, STALE_SESSION_HOURS).rows
    /\ procs' = Append(procs, Starting(agent, "lookup", None))
    /\ ret' = NoResult
    /\ UNCHANGED <<dbvars, events, fts, now, out, meta, archive>>

\* active = store.get_active_session(agent_id)
StartLookup(i) ==
    /\ i \in 1..Len(procs)
    /\ procs[i].pc = "lookup"
    /\ LET active == ActiveSessions(sessions, procs[i].agent_id)
       IN IF active = {}
          THEN procs' = [procs EXCEPT ![i].pc = "insert"]
          ELSE \E a \in active :
                  procs' = [procs EXCEPT ![i].pc = "end", ![i].active = a.id]
    /\ ret' = NoResult
    /\ UNCHANGED <<dbvars, events, fts, now, out, sessions, meta, archive>>

\* store.end_session(active.id); its ValueError ends the call
StartEnd(i) ==
    /\ i \in 1..Len(procs)
    /\ procs[i].pc = "end"
    /\ LET done == EndSessionRow(sessions, procs[i].active, EmptyTs, now)
       IN /\ sessions' = done.rows
          /\ IF done.ok
             THEN /\ procs' = [procs EXCEPT ![i].pc = "insert"]
                  /\ ret' = NoResult
             ELSE /\ procs' = WithoutProc(procs, i)
                  /\ ret' = Result("session_start",
                                   [agent_id |-> procs[i].agent_id], FALSE,
                                   done.err, <<>>)
    /\ UNCHANGED <<dbvars, events, fts, now, out, meta, archive>>

\* store.insert_session(sess), after which the call returns
StartInsert(i) ==
    /\ i \in 1..Len(procs)
    /\ procs[i].pc = "insert"
    /\ LET done == InsertSessionRow(sessions,
                                    Session(<<>>, procs[i].agent_id, EmptyTs, None),
                                    now)
       IN /\ sessions' = done.rows
          /\ ret' = Result("session_start", [agent_id |-> procs[i].agent_id],
                           done.ok, done.err, done.val)
    /\ procs' = WithoutProc(procs, i)
    /\ UNCHANGED <<dbvars, events, fts, now, out, meta, archive>>

\* session_start calls made in one run
MaxStarts == 3

NextStarts ==
    \/ \E agent \in Agents :
          /\ Len(procs) < MaxProcs
          /\ Len(sessions) + Len(procs) < MaxStarts
          /\ StartCleanup(agent)
    \/ \E i \in 1..MaxProcs : StartLookup(i)
    \/ \E i \in 1..MaxProcs : StartEnd(i)
    \/ \E i \in 1..MaxProcs : StartInsert(i)
    \/ now.s < Time0.s + MaxTicks * TickSecs /\ Tick

SpecStarts == Init /\ [][NextStarts]_vars

\* C36: once the session_start calls that ran at the same time have all
\* finished, every agent has at most one session whose ended_at is null.
C36_OneActiveAfterStarts ==
    procs = <<>> => \A agent \in Agents : Cardinality(ActiveOf(agent)) <= 1

(***************************************************************************)
(* The full-text index after garbage collection                            *)
(***************************************************************************)
\* C37: after any sequence of insert, insert_batch and collect calls,
\* query_fts(term) returns only events whose own content or scope contains
\* the term, so never an event inserted after a collect for a term of an
\* event the collect removed.
C37_IndexConsistent ==
    ret.op = "query_fts" =>
       \A i \in 1..Len(ret.val) :
          \E r \in Range(events) :
             /\ r.id = ret.val[i].id
             /\ FtsMatch(FtsEntry(r), ret.arg.text)

(***************************************************************************)
(* The archived copy of an event                                           *)
(***************************************************************************)
\* C38: an event collect moves to the archive store is stored there with
\* every field equal to its value in the main store before the move:
\* id, timestamp, type, agent, content, scope, related_ids, status, priority,
\* resolved_reason, superseded_by and session_id.
C38_ArchiveFaithful ==
    [][(ret'.op = "collect" /\ ret'.ok /\ ~ret'.arg.dry_run) =>
          \A r \in Range(events) :
             r \notin Range(events') =>
                \E a \in Range(archive'.events) : RowToEvent(a) = RowToEvent(r)]_vars

====
